---- MODULE Spec2Model ----
(***************************************************************************)
(* Model of the truncation-detection and resumable-retry proxy:            *)
(*   src/src/index.js      entry point, handlers and constants             *)
(*   src/unnamed/part_001  core helpers (markers, request mutation)        *)
(* Text is a sequence of one-character strings; the long instruction       *)
(* prompts are single opaque symbols of such a sequence.                   *)
(***************************************************************************)
EXTENDS Integers, Sequences, FiniteSets, TLC

VARIABLES
  req,            \* the inbound request: [target, cherry, body]
  handler,        \* "ns" (handleNonStreamingRequest) or "st" (handleStreamingRequest)
  maxRetries,     \* config.maxRetries
  injectBegin,    \* injectBeginTokenPrompt
  pc,             \* position of the handler
  attempts,       \* attempts
  body,           \* currentRequestBody
  calls,          \* bodies of the upstream calls made so far, in order
  isThoughtFinished,
  itf0,           \* isThoughtFinished at the start of the current attempt (streaming)
  thoughtAcc,     \* thoughtAccumulatedText                (non-streaming)
  formalAcc,      \* formalAccumulatedText                 (non-streaming)
  lastUp,         \* outcome of the last upstream call     (non-streaming)
  resp,           \* the Response returned to the caller   (non-streaming)
  acc,            \* accumulatedTextThisAttempt            (streaming)
  hasFC,          \* hasFunctionCallInStream               (streaming)
  passthroughMode,
  lineBuffer,     \* raw partial event held across chunks
  textBuffer,     \* lookahead text
  linesBuffer,    \* queue of [rawLine, isTransitionLine, text]
  stream,         \* events of the upstream stream of this attempt
  upstream,       \* bytes of that stream not yet read
  rx,             \* bytes read in this attempt, in order
  out,            \* what was written to the outbound stream, in order
  closed,         \* number of writer.close() calls
  heartbeatInterval, \* the keepalive timer is set
  ticks,          \* number of runs of the keepalive callback
  consumed,       \* number of items of out the caller has read
  errored,        \* the caller has cancelled the outbound stream
  fn,             \* the function of core.js applied on its own, "none" before
  arg,            \* its arguments, with the value the argument object has now
  returned,       \* what it returned
  hist            \* per ended attempt: how it ended

vars == << req, handler, maxRetries, injectBegin, pc, attempts, body, calls,
           isThoughtFinished, itf0, thoughtAcc, formalAcc, lastUp, resp, acc, hasFC,
           passthroughMode, lineBuffer, textBuffer, linesBuffer, stream,
           upstream, rx, out, closed, heartbeatInterval, ticks, consumed, errored,
           fn, arg, returned, hist >>

----------------------------------------------------------------------------
(* Protocol constants *)

BEGIN_TOKEN ==
  << "[","R","E","S","P","O","N","S","E","_","B","E","G","I","N","]" >>

FINISHED_TOKEN ==
  << "[","R","E","S","P","O","N","S","E","_","F","I","N","I","S","H","E","D","]" >>

INCOMPLETE_TOKEN ==
  << "[","R","E","S","P","O","N","S","E","_","N","O","T","_",
     "F","I","N","I","S","H","E","D","]" >>

BEGIN_TOKEN_PROMPT  == << "<BEGIN_TOKEN_PROMPT>" >>
FINISH_TOKEN_PROMPT == << "<FINISH_TOKEN_PROMPT>" >>
REMINDER_PROMPT     == << "<REMINDER_PROMPT>" >>
Separator           == << "\n", "\n", "-", "-", "-", "\n" >>
startOfThought      == << "H","e","r","e","'","s"," ","a" >>

\* variant: no status code is fatal
FATAL_STATUS_CODES_None == {}

\* variant: 429 is not in the retryable set
RETRYABLE_STATUS_CODES_No429 == {503, 403}

RETRYABLE_STATUS_CODES == {503, 403, 429}
FATAL_STATUS_CODES == {500}
MAX_FETCH_RETRIES == 3
MAX_NON_RETRYABLE_STATUS_RETRIES == 3

TOKEN_LEN == Len(FINISHED_TOKEN)

\* variant: the lookahead is as long as the finish marker
LOOKAHEAD_SIZE_NoMargin == TOKEN_LEN

LOOKAHEAD_SIZE == TOKEN_LEN + 4

----------------------------------------------------------------------------
(* Strings *)

Backtick == "BACKTICK"   \* the backtick character

IsWS(c) == c \in {" ", "\n", "\t", "\r"}

StartsWith(t, p) == Len(t) >= Len(p) /\ SubSeq(t, 1, Len(p)) = p

EndsWith(t, s) == Len(t) >= Len(s) /\ SubSeq(t, Len(t) - Len(s) + 1, Len(t)) = s

Drop(t, n) == SubSeq(t, n + 1, Len(t))

RECURSIVE TrimEnd(_)
TrimEnd(t) ==
  IF t # << >> /\ IsWS(t[Len(t)]) THEN TrimEnd(SubSeq(t, 1, Len(t) - 1)) ELSE t

Contains(t, p) ==
  \E i \in 1..(Len(t) - Len(p) + 1) : SubSeq(t, i, i + Len(p) - 1) = p

RECURSIVE Concat(_)
Concat(ss) == IF ss = << >> THEN << >> ELSE Head(ss) \o Concat(Tail(ss))

----------------------------------------------------------------------------
(* Completion detector *)

\* variant: the marker only has to occur in the text
isResponseComplete_Anywhere(text) == Contains(text, FINISHED_TOKEN)

\* regex: FINISHED_TOKEN, then any whitespace, then end of text; test()
\* looks for a match starting anywhere
isResponseComplete(text) ==
  \E i \in 1..(Len(text) - Len(FINISHED_TOKEN) + 1) :
    /\ SubSeq(text, i, i + Len(FINISHED_TOKEN) - 1) = FINISHED_TOKEN
    /\ \A j \in (i + Len(FINISHED_TOKEN))..Len(text) : IsWS(text[j])

\* regex: start of text, BEGIN_TOKEN, then end of text or a character
\* other than backtick, period and space
isFormalResponseStarted(text) ==
  /\ StartsWith(text, BEGIN_TOKEN)
  /\ \/ Len(text) = Len(BEGIN_TOKEN)
     \/ text[Len(BEGIN_TOKEN) + 1] \notin {Backtick, ".", " "}

\* variant: the whitespace after BEGIN_TOKEN is left in place
CleanBegin_KeepSpace(text) ==
  IF StartsWith(text, BEGIN_TOKEN) THEN Drop(text, Len(BEGIN_TOKEN)) ELSE text

\* removes: start of text, at most one whitespace, BEGIN_TOKEN, at most one whitespace
CleanBegin(text) ==
  LET t1 == IF text # << >> /\ IsWS(text[1]) /\ StartsWith(Drop(text, 1), BEGIN_TOKEN)
            THEN Drop(text, 1) ELSE text
  IN IF StartsWith(t1, BEGIN_TOKEN)
     THEN LET t2 == Drop(t1, Len(BEGIN_TOKEN))
          IN IF t2 # << >> /\ IsWS(t2[1]) THEN Drop(t2, 1) ELSE t2
     ELSE text

\* removes: at most one whitespace, FINISHED_TOKEN, any whitespace, end of text
CleanFinish(text) ==
  LET u == TrimEnd(text)
  IN IF EndsWith(u, FINISHED_TOKEN)
     THEN LET v == SubSeq(u, 1, Len(u) - Len(FINISHED_TOKEN))
          IN IF v # << >> /\ IsWS(v[Len(v)]) THEN SubSeq(v, 1, Len(v) - 1) ELSE v
     ELSE text

cleanFinalText(text, cleanBeginToken, cleanFinishToken) ==
  LET a == IF cleanBeginToken THEN CleanBegin(text) ELSE text
  IN IF cleanFinishToken THEN CleanFinish(a) ELSE a

----------------------------------------------------------------------------
(* Requests.  A part is [hasText, text, thought, fc]; a content entry is   *)
(* [role, isArr, parts] (isArr: parts is an array); a system instruction   *)
(* is [present, null, isArr, parts] (present: the field holds an object,   *)
(* which is what the code tests; null: it holds null); a body is           *)
(* [hasContents, contents,                                                 *)
(* systemInstruction, system_instruction, hasBudget, thinkingBudget,       *)
(* responseSchema].                                                        *)

TextPart(t)    == [hasText |-> TRUE,  text |-> t,     thought |-> FALSE, fc |-> FALSE]
ThoughtPart(t) == [hasText |-> TRUE,  text |-> t,     thought |-> TRUE,  fc |-> FALSE]
CallPart       == [hasText |-> FALSE, text |-> << >>, thought |-> FALSE, fc |-> TRUE]
BlobPart       == [hasText |-> FALSE, text |-> << >>, thought |-> FALSE, fc |-> FALSE]

\* JavaScript truthiness of part.text
Truthy(p) == p.hasText /\ p.text # << >>

NoSys == [present |-> FALSE, null |-> FALSE, isArr |-> FALSE, parts |-> << >>]
Sys(ps) == [present |-> TRUE, null |-> FALSE, isArr |-> TRUE, parts |-> ps]
\* the field is there and holds null
NullSys == [present |-> FALSE, null |-> TRUE, isArr |-> FALSE, parts |-> << >>]
Content(r, ps) == [role |-> r, isArr |-> TRUE, parts |-> ps]

normalizeSystemInstruction(b) ==
  IF b.systemInstruction.present /\ b.system_instruction.present
  THEN [b EXCEPT !.system_instruction = NoSys]
  ELSE IF ~b.systemInstruction.present /\ b.system_instruction.present
  THEN [b EXCEPT !.systemInstruction = b.system_instruction,
                 !.system_instruction = NoSys]
  ELSE b

\* index of the first / last TRUE of a sequence of booleans, 0 when there is
\* none: findIndex and the backward search over parts
FirstIdx(bs) ==
  IF \E i \in 1..Len(bs) : bs[i]
  THEN CHOOSE i \in 1..Len(bs) : bs[i] /\ \A j \in 1..(i - 1) : ~bs[j]
  ELSE 0

LastIdx(bs) ==
  IF \E i \in 1..Len(bs) : bs[i]
  THEN CHOOSE i \in 1..Len(bs) : bs[i] /\ \A j \in (i + 1)..Len(bs) : ~bs[j]
  ELSE 0

NonBlank(p) == Truthy(p) /\ \E i \in 1..Len(p.text) : ~IsWS(p.text[i])

\* injectSystemPrompts, the merge into systemInstruction
InjectSys(sys, prompt) ==
  IF ~sys.present THEN Sys(<< TextPart(prompt) >>)
  ELSE IF ~sys.isArr THEN [sys EXCEPT !.isArr = TRUE, !.parts = << TextPart(prompt) >>]
  ELSE IF sys.parts = << >> THEN [sys EXCEPT !.parts = << TextPart(prompt) >>]
  ELSE IF ~Truthy(sys.parts[1]) THEN [sys EXCEPT !.parts[1] = TextPart(prompt)]
  ELSE [sys EXCEPT !.parts[1].text = @ \o Separator \o prompt]

\* injectSystemPrompts, the markers of one content entry
InjectContent(c, ib, if) ==
  IF ~c.isArr \/ c.role # "model" THEN c
  ELSE LET f  == FirstIdx([i \in 1..Len(c.parts) |-> Truthy(c.parts[i])])
           c1 == IF ib /\ f # 0
                 THEN [c EXCEPT !.parts[f].text = BEGIN_TOKEN \o << "\n" >> \o @]
                 ELSE c
           l  == LastIdx([i \in 1..Len(c1.parts) |-> Truthy(c1.parts[i])])
       IN IF if /\ l # 0
          THEN [c1 EXCEPT !.parts[l].text = @ \o << "\n" >> \o FINISHED_TOKEN]
          ELSE c1

\* injectSystemPrompts, the reminder and the seed model turn
InjectReminder(cs, ib) ==
  IF cs = << >> THEN cs
  ELSE LET n == Len(cs)
           last == cs[n]
           l == IF last.role = "user" /\ last.isArr /\ last.parts # << >>
                THEN LastIdx([i \in 1..Len(last.parts) |-> NonBlank(last.parts[i])]) ELSE 0
       IN IF l = 0 THEN cs
          ELSE LET cs1 == [cs EXCEPT ![n].parts[l].text = @ \o Separator \o REMINDER_PROMPT]
               IN IF ib THEN Append(cs1, Content("model", << TextPart(startOfThought) >>))
                  ELSE cs1

injectSystemPrompts(b, ib, if) ==
  LET nb == normalizeSystemInstruction(b)
      prompt == IF ib /\ if THEN BEGIN_TOKEN_PROMPT \o FINISH_TOKEN_PROMPT
                ELSE IF ib THEN BEGIN_TOKEN_PROMPT
                ELSE IF if THEN FINISH_TOKEN_PROMPT
                ELSE << >>
  IN IF prompt = << >> THEN nb
     ELSE LET b1 == [nb EXCEPT !.systemInstruction = InjectSys(@, prompt)]
          IN IF ~b1.hasContents THEN b1
             ELSE [b1 EXCEPT !.contents =
                     InjectReminder([i \in 1..Len(@) |-> InjectContent(@[i], ib, if)], ib)]

\* variant: the text always goes into a new model turn
buildRetryRequest_NewTurn(b, newResponseText) ==
  LET nb == normalizeSystemInstruction(b)
      cs == IF nb.hasContents THEN nb.contents ELSE << >>
  IN [nb EXCEPT !.hasContents = TRUE,
                !.contents = Append(cs, Content("model", << TextPart(newResponseText) >>))]

buildRetryRequest(b, newResponseText) ==
  LET nb == normalizeSystemInstruction(b)
      cs == IF nb.hasContents THEN nb.contents ELSE << >>
      n  == Len(cs)
      HasText(p) == p.hasText
  IN IF n > 0 /\ cs[n].role = "model"
     THEN IF ~cs[n].isArr \/ cs[n].parts = << >>
          THEN [nb EXCEPT !.hasContents = TRUE,
                          !.contents = [cs EXCEPT ![n].isArr = TRUE,
                                                  ![n].parts = << TextPart(newResponseText) >>]]
          ELSE LET l == LastIdx([i \in 1..Len(cs[n].parts) |-> HasText(cs[n].parts[i])])
               IN IF l # 0
                  THEN [nb EXCEPT !.contents[n].parts[l].text = @ \o newResponseText]
                  ELSE [nb EXCEPT !.contents[n].parts =
                                     Append(@, TextPart(newResponseText))]
     ELSE [nb EXCEPT !.hasContents = TRUE,
                     !.contents = Append(cs, Content("model", << TextPart(newResponseText) >>))]

isStructuredOutputRequest(b) == b.responseSchema

\* parseParts: [responseText, hasThought, hasFunctionCall]
parseParts(parts) ==
  LET Formal(p) == ~(p.thought /\ Truthy(p)) /\ Truthy(p) /\ ~p.thought
      Call(p)   == ~(p.thought /\ Truthy(p)) /\ ~(Truthy(p) /\ ~p.thought) /\ p.fc
  IN [ responseText    |-> Concat([i \in 1..Len(parts) |->
                              IF Formal(parts[i]) THEN parts[i].text ELSE << >>]),
       hasThought      |-> \E i \in 1..Len(parts) : parts[i].thought /\ Truthy(parts[i]),
       hasFunctionCall |-> \E i \in 1..Len(parts) : Call(parts[i]) ]

----------------------------------------------------------------------------
(* Bounds and inputs *)

\* config.maxRetries is parseInt(env.MAX_RETRIES) || 3 (utils.js, parseConfig):
\* never 0; it ranges over 1..MaxRetriesNS here
MaxRetriesNS == 4

Txt_Hi == << "H", "i" >>
Txt_ok == << "o", "k" >>

Body(cs, hasB, b, schema) ==
  [ hasContents |-> TRUE, contents |-> cs, systemInstruction |-> NoSys,
    system_instruction |-> NoSys, hasBudget |-> hasB, thinkingBudget |-> b,
    responseSchema |-> schema ]

UserTurn == Content("user", << TextPart(<< "Q" >>) >>)

\* inbound requests of the handlers
Requests ==
  { [target |-> TRUE,  cherry |-> FALSE, body |-> Body(<< UserTurn >>, FALSE, 0, FALSE)],
    [target |-> TRUE,  cherry |-> FALSE, body |-> Body(<< UserTurn >>, TRUE, 0, FALSE)] }

\* an upstream outcome: [kind, code, parts, meta]
UpOk(ps)    == [kind |-> "ok",     code |-> 200, parts |-> ps,    meta |-> "upstream"]
UpStatus(c) == [kind |-> "status", code |-> c,   parts |-> << >>, meta |-> "upstream"]
UpNetErr    == [kind |-> "neterr", code |-> 0,   parts |-> << >>, meta |-> "none"]
NoUp        == [kind |-> "none",   code |-> 0,   parts |-> << >>, meta |-> "none"]

\* upstream answers of the non-streaming path
NSAnswers ==
  { << TextPart(BEGIN_TOKEN \o << "\n" >> \o Txt_Hi \o FINISHED_TOKEN) >>,
    << TextPart(Txt_ok) >>,
    << ThoughtPart(Txt_ok), TextPart(BEGIN_TOKEN \o Txt_Hi) >>,
    << TextPart(Txt_ok \o << " " >> \o FINISHED_TOKEN \o << "\n" >>) >>,
    << TextPart(BEGIN_TOKEN \o << ".", " " >> \o Txt_ok) >>,
    << TextPart(Txt_Hi \o FINISHED_TOKEN \o Txt_ok) >>,
    << TextPart(BEGIN_TOKEN \o Txt_Hi), CallPart >>,
    << >> }

NSOutcomes ==
  { UpOk(ps) : ps \in NSAnswers } \cup { UpStatus(c) : c \in {500, 503, 429, 400} }
    \cup { UpNetErr }

----------------------------------------------------------------------------
(* Non-streaming retry loop: handleNonStreamingRequest *)

NoResp == [kind |-> "none", status |-> 0, parts |-> << >>, fin |-> "", meta |-> "none",
           message |-> ""]

\* new Response(JSON.stringify(json), {status: 200})
JsonResp(k, ps, f, m) ==
  [kind |-> k, status |-> 200, parts |-> ps, fin |-> f, meta |-> m, message |-> ""]

\* jsonError(status, message, details): details is the upstream body, or
\* the error message of a failed fetch
jsonError(st, msg, details) ==
  [kind |-> "error", status |-> st, parts |-> << >>, fin |-> "", meta |-> details,
   message |-> msg]

\* variant: formal text after the thought phase replaces the text held
RECURSIVE Accumulate_Restart(_, _)
Accumulate_Restart(a, parts) ==
  IF parts = << >> THEN a
  ELSE LET p == Head(parts)
           a1 == IF Truthy(p) /\ ~p.thought
                 THEN IF ~a.itf
                      THEN IF isFormalResponseStarted(p.text)
                           THEN [a EXCEPT !.itf = TRUE, !.fo = @ \o p.text]
                           ELSE [a EXCEPT !.th = @ \o p.text]
                      ELSE [a EXCEPT !.fo = p.text]
                 ELSE a
       IN Accumulate_Restart(a1, Tail(parts))

\* the loop over the parts of one upstream answer, lines 173-191;
\* a is [itf, th, fo]: isThoughtFinished and the two accumulators
RECURSIVE Accumulate(_, _)
Accumulate(a, parts) ==
  IF parts = << >> THEN a
  ELSE LET p == Head(parts)
           a1 == IF Truthy(p) /\ ~p.thought
                 THEN IF ~a.itf
                      THEN IF isFormalResponseStarted(p.text)
                           THEN [a EXCEPT !.itf = TRUE, !.fo = @ \o p.text]
                           ELSE [a EXCEPT !.th = @ \o p.text]
                      ELSE [a EXCEPT !.fo = @ \o p.text]
                 ELSE a
       IN Accumulate(a1, Tail(parts))

\* variant: the formal text is not stripped of its markers
NSMaxRetriesResponse_NoClean(th, fo) ==
  JsonResp("exhausted",
           (IF th # << >> THEN << ThoughtPart(th) >> ELSE << >>)
             \o << TextPart(fo \o << "\n" >> \o INCOMPLETE_TOKEN) >>,
           "MAX_RETRIES", "none")

\* the response after the loop, lines 235-258
NSMaxRetriesResponse(th, fo) ==
  JsonResp("exhausted",
           (IF th # << >> THEN << ThoughtPart(th) >> ELSE << >>)
             \o << TextPart(cleanFinalText(fo, TRUE, TRUE) \o << "\n" >> \o INCOMPLETE_TOKEN) >>,
           "MAX_RETRIES", "none")

\* variant: the thought part is left out when there is no thought text
NSCompleteResponse_OptThought(th, fo, up) ==
  JsonResp("complete",
           (IF th # << >> THEN << ThoughtPart(th) >> ELSE << >>)
             \o << TextPart(cleanFinalText(fo, TRUE, TRUE)) >>,
           "upstream", up.meta)

\* the response of a complete answer, lines 193-206
NSCompleteResponse(th, fo, up) ==
  JsonResp("complete",
           << ThoughtPart(th), TextPart(cleanFinalText(fo, TRUE, TRUE)) >>,
           "upstream", up.meta)

\* variant: only the first part is looked at
NSHasFunctionCall_First(parts) == parts # << >> /\ parts[1].fc

\* the function-call short-circuit, lines 156-171
NSHasFunctionCall(parts) == \E i \in 1..Len(parts) : parts[i].fc

\* variant: the budget is only raised to the lower end of the range
ClampBudget_LowOnly(b) ==
  IF b.hasBudget /\ b.thinkingBudget # 0 /\ b.thinkingBudget < 128
  THEN [b EXCEPT !.thinkingBudget = 128]
  ELSE b

\* lines 124-131
ClampBudget(b) ==
  IF b.hasBudget /\ b.thinkingBudget # 0
  THEN IF b.thinkingBudget < 128 THEN [b EXCEPT !.thinkingBudget = 128]
       ELSE IF b.thinkingBudget > 32768 THEN [b EXCEPT !.thinkingBudget = 32768]
       ELSE b
  ELSE b

\* variant: any thinkingBudget given suppresses the begin marker
InjectBeginTokenPrompt_AnyBudget(b) == ~b.hasBudget

\* lines 116-122 and 292-298
InjectBeginTokenPrompt(b) == ~(b.hasBudget /\ b.thinkingBudget = 0)

\* what one iteration of the while loop decides on a failed call:
\* the response to return, or NoResp to go on (lines 211-232)
NSFailure(up, n, mr) ==
  IF up.kind = "status"
  THEN IF up.code \in FATAL_STATUS_CODES
       THEN jsonError(up.code, "Upstream API returned a fatal error.", up.meta)
       ELSE LET cap == IF up.code \in RETRYABLE_STATUS_CODES THEN mr
                       ELSE MAX_NON_RETRYABLE_STATUS_RETRIES
            IN IF n > cap
               THEN jsonError(up.code, "Upstream API error after max retries.", up.meta)
               ELSE NoResp
  ELSE IF n > MAX_FETCH_RETRIES
       THEN jsonError(500, "Internal Server Error after max retries.", "fetch error")
       ELSE NoResp

\* a call of one function of core.js: [text, body, ib, if], the text
\* argument, the body argument and the two inject flags
PureArg(t, b, ib, if) == [text |-> t, body |-> b, ib |-> ib, if |-> if]

NoBody == Body(<< >>, FALSE, 0, FALSE)
NoArg == PureArg(<< >>, NoBody, FALSE, FALSE)
NoRet == [bool |-> FALSE, text |-> << >>, body |-> NoBody]

\* no function is applied on its own while a handler runs
PureIdle == fn = "none" /\ arg = NoArg /\ returned = NoRet

StreamIdle ==
  /\ acc = << >> /\ hasFC = FALSE /\ passthroughMode = FALSE /\ itf0 = FALSE
  /\ lineBuffer = << >> /\ textBuffer = << >> /\ linesBuffer = << >>
  /\ stream = << >> /\ upstream = << >> /\ rx = << >> /\ out = << >> /\ closed = 0
  /\ heartbeatInterval = FALSE /\ ticks = 0 /\ consumed = 0 /\ errored = FALSE

\* lines 94-136: the state before the loop
InitNonStreaming(rs, ms) ==
  /\ handler = "ns"
  /\ req \in rs
  /\ maxRetries \in ms
  /\ injectBegin = InjectBeginTokenPrompt(req.body)
  /\ pc = "loop"
  /\ attempts = 0
  /\ body = injectSystemPrompts(ClampBudget(req.body), injectBegin, TRUE)
  /\ calls = << >>
  /\ isThoughtFinished = ~injectBegin
  /\ thoughtAcc = (IF injectBegin THEN startOfThought ELSE << >>)
  /\ formalAcc = << >>
  /\ lastUp = NoUp
  /\ resp = NoResp
  /\ hist = << >>
  /\ StreamIdle
  /\ PureIdle

InitNS == InitNonStreaming(Requests, 1..MaxRetriesNS)

\* one iteration of `while (attempts <= config.maxRetries)`, with the code
\* after the loop when this iteration is the last one
NSAttempt(up) ==
  /\ handler = "ns" /\ pc = "loop"
  /\ attempts <= maxRetries
  /\ \E a \in { Accumulate([itf |-> isThoughtFinished, th |-> thoughtAcc, fo |-> formalAcc],
                             up.parts) } :
     LET n == attempts + 1
         fcall == up.kind = "ok" /\ NSHasFunctionCall(up.parts)
         ok == up.kind = "ok" /\ ~fcall
         complete == ok /\ a.itf /\ isResponseComplete(a.fo)
         fail == IF up.kind = "ok" THEN NoResp ELSE NSFailure(up, n, maxRetries)
         th1 == IF ok THEN a.th ELSE thoughtAcc
         fo1 == IF ok THEN a.fo ELSE formalAcc
         ret == IF fcall THEN JsonResp("raw", up.parts, "upstream", up.meta)
                ELSE IF complete THEN NSCompleteResponse(a.th, a.fo, up)
                ELSE IF fail # NoResp THEN fail
                ELSE IF n > maxRetries THEN NSMaxRetriesResponse(th1, fo1)
                ELSE NoResp
     IN /\ attempts' = n
        /\ calls' = Append(calls, body)
        /\ lastUp' = up
        /\ hist' = Append(hist, up)
        /\ isThoughtFinished' = (IF ok THEN a.itf ELSE isThoughtFinished)
        /\ thoughtAcc' = th1
        /\ formalAcc' = fo1
        /\ body' = (IF ok /\ ~complete THEN buildRetryRequest(body, a.th \o a.fo) ELSE body)
        /\ resp' = ret
        /\ pc' = (IF ret # NoResp THEN "done" ELSE "loop")
  /\ UNCHANGED << fn, arg, returned, req, handler, maxRetries, injectBegin, itf0, acc, hasFC, passthroughMode,
                  lineBuffer, textBuffer, linesBuffer, stream, upstream, rx, out, closed,
                  heartbeatInterval, ticks, consumed, errored >>

NextNS == \E up \in NSOutcomes : NSAttempt(up)

SpecNS == InitNS /\ [][NextNS]_vars

----------------------------------------------------------------------------
(* Streaming: upstream events, bytes and outbound writes.                  *)
(* An upstream event is [kind, parts]: kind "data" (a data line with JSON),*)
(* "other" (a line not starting with data:), "bad" (a data line whose      *)
(* payload is not JSON), "nopayload" (a data line with nothing after the   *)
(* prefix but whitespace).  Event i of a stream is sent as the four symbols  *)
(* H(i) T(i) NL NL: the two halves of its line and the blank-line          *)
(* delimiter.  A chunk is any run of consecutive symbols.                  *)

EvData(ps) == [kind |-> "data",  parts |-> ps]
EvOther    == [kind |-> "other", parts |-> << >>]
EvBad      == [kind |-> "bad",   parts |-> << >>]
EvNoPayload == [kind |-> "nopayload", parts |-> << >>]

SymH(i) == [f |-> "H", i |-> i]
SymT(i) == [f |-> "T", i |-> i]
SymNL   == [f |-> "NL", i |-> 0]

\* the bytes of a stream whose events are all terminated by a blank line
Bytes(evs) == Concat([i \in 1..Len(evs) |-> << SymH(i), SymT(i), SymNL, SymNL >>])

\* processableString.split(/\r?\n\r?\n/): the lines, the last one being the rest
RECURSIVE SplitLines(_, _, _)
SplitLines(s, cur, done) ==
  IF s = << >> THEN Append(done, cur)
  ELSE IF Len(s) >= 2 /\ s[1].f = "NL" /\ s[2].f = "NL"
       THEN SplitLines(Drop(s, 2), << >>, Append(done, cur))
       ELSE SplitLines(Tail(s), Append(cur, s[1]), done)

\* how the code sees a line: "data" (parsed), "bad" (data: with a payload
\* JSON.parse rejects), "nopayload" (data: with an empty trimmed payload,
\* line 370), "other" (no data: prefix), "empty"
LineKind(evs, line) ==
  IF line = << >> THEN "empty"
  ELSE IF Len(line) = 2 /\ line[1].f = "H" /\ line[2] = SymT(line[1].i)
       THEN evs[line[1].i].kind
       ELSE IF line[1].f = "H" /\ evs[line[1].i].kind # "other" THEN "bad" ELSE "other"

\* writes to the outbound stream
OutData(ps, f, src, vb) ==
  [k |-> "data", parts |-> ps, fin |-> f, raw |-> << >>, src |-> src, code |-> 0,
   details |-> "", verbatim |-> vb]
OutLine(line) ==
  [k |-> "line", parts |-> << >>, fin |-> "", raw |-> line, src |-> << >>, code |-> 0,
   details |-> "", verbatim |-> TRUE]
OutByte(sym) ==
  [k |-> "byte", parts |-> << >>, fin |-> "", raw |-> << sym >>, src |-> << >>, code |-> 0,
   details |-> "", verbatim |-> TRUE]
OutError(c, msg, details) ==
  [k |-> "error", parts |-> << >>, fin |-> msg, raw |-> << >>, src |-> << >>, code |-> c,
   details |-> details, verbatim |-> FALSE]

\* writer.write(encoder.encode(lineObj.rawLine + '\n\n'))
WriteRaw(lo) == OutData(lo.rawLine.parts, "upstream", << lo.rawLine.id >>, ~lo.rawLine.modified)

\* lines 410-446: the line to store for a parsed data event
LineToStore(parts, itf, id) ==
  LET kept  == SelectSeq(parts, LAMBDA p : ~p.thought)
      mark  == ~itf /\ \E i \in 1..Len(kept) : Truthy(kept[i])
      final == IF ~itf
               THEN [i \in 1..Len(kept) |->
                       IF Truthy(kept[i]) THEN [kept[i] EXCEPT !.thought = TRUE] ELSE kept[i]]
               ELSE kept
      modified == Len(kept) < Len(parts) \/ mark
  IN [parts |-> IF modified THEN final ELSE parts, modified |-> modified, id |-> id]

\* variant: a line that is not parsed is dropped
ForwardLine_Dropped(st, line) == st

\* lines 365 and 453: writer.write(encoder.encode(line + '\n\n'))
ForwardLine(st, line) == [st EXCEPT !.out = Append(@, OutLine(line))]

\* lines 363-455: one line of a chunk; st is the state of the attempt
ProcLine(st, evs, line, n) ==
  LET kind == LineKind(evs, line)
  IN IF kind \in {"empty", "nopayload"} THEN st
     ELSE IF kind \in {"other", "bad"} THEN ForwardLine(st, line)
     ELSE
       LET i  == line[1].i
           ev == evs[i]
           pp == parseParts(ev.parts)
           fc == st.hasFC \/ pp.hasFunctionCall
       IN IF pp.hasThought /\ pp.responseText = << >> /\ ~pp.hasFunctionCall
          THEN [st EXCEPT !.hasFC = fc]
          ELSE IF fc /\ ~st.pass
          THEN [st EXCEPT
                  !.hasFC = fc,
                  !.out = @ \o [j \in 1..Len(st.linesBuffer) |-> WriteRaw(st.linesBuffer[j])]
                            \o << OutData(ev.parts, "upstream", << << n, i >> >>, TRUE) >>,
                  !.linesBuffer = << >>,
                  !.textBuffer = IF st.linesBuffer # << >> THEN << >> ELSE @,
                  !.pass = TRUE]
          ELSE
            LET tr   == ~st.itf /\ isFormalResponseStarted(pp.responseText)
                itf1 == st.itf \/ tr
            IN [st EXCEPT
                  !.hasFC = fc,
                  !.itf = itf1,
                  !.acc = IF tr THEN @ \o BEGIN_TOKEN \o << "\n" >> ELSE @,
                  !.linesBuffer = Append(@, [rawLine |-> LineToStore(ev.parts, itf1, << n, i >>),
                                             isTransitionLine |-> tr,
                                             text |-> pp.responseText]),
                  !.textBuffer = @ \o pp.responseText]

RECURSIVE ProcLines(_, _, _, _)
ProcLines(st, evs, lines, n) ==
  IF lines = << >> THEN st
  ELSE ProcLines(ProcLine(st, evs, Head(lines), n), evs, Tail(lines), n)

\* lines 462-483: the release loop; fwd is forwardedTextLength
RECURSIVE Release(_, _, _)
Release(st, safe, fwd) ==
  IF st.linesBuffer = << >> THEN [st EXCEPT !.textBuffer = Drop(@, fwd)]
  ELSE LET lo == Head(st.linesBuffer)
       IN IF fwd + Len(lo.text) <= safe
          THEN LET cleaned == cleanFinalText(lo.text, TRUE, FALSE)
                   st1 == IF lo.isTransitionLine
                          THEN [st EXCEPT
                                  !.linesBuffer = Tail(@),
                                  !.out = Append(@, OutData(<< TextPart(cleaned) >>, "upstream",
                                                            << lo.rawLine.id >>, FALSE)),
                                  !.acc = @ \o cleaned]
                          ELSE [st EXCEPT
                                  !.linesBuffer = Tail(@),
                                  !.out = Append(@, WriteRaw(lo)),
                                  !.acc = @ \o lo.text]
               IN Release(st1, safe, fwd + Len(lo.text))
          ELSE [st EXCEPT !.textBuffer = Drop(@, fwd)]

\* lines 457-485
Lookahead(st) ==
  IF Len(st.textBuffer) > LOOKAHEAD_SIZE
  THEN Release(st, Len(st.textBuffer) - LOOKAHEAD_SIZE, 0)
  ELSE st

\* variant: the partial line held from the previous chunk is not prefixed
ProcChunk_NoCarry(st, evs, chunk, n) ==
  IF st.pass
  THEN [st EXCEPT !.out = @ \o [j \in 1..Len(chunk) |-> OutByte(chunk[j])]]
  ELSE LET lines == SplitLines(chunk, << >>, << >>)
           st1 == [st EXCEPT !.lineBuffer = lines[Len(lines)]]
       IN Lookahead(ProcLines(st1, evs, SubSeq(lines, 1, Len(lines) - 1), n))

\* lines 351-486: one chunk read from upstream
ProcChunk(st, evs, chunk, n) ==
  IF st.pass
  THEN [st EXCEPT !.out = @ \o [j \in 1..Len(chunk) |-> OutByte(chunk[j])]]
  ELSE LET lines == SplitLines(st.lineBuffer \o chunk, << >>, << >>)
           st1 == [st EXCEPT !.lineBuffer = lines[Len(lines)]]
       IN Lookahead(ProcLines(st1, evs, SubSeq(lines, 1, Len(lines) - 1), n))

\* variant: the begin marker is left in the text of the final event
FinalPayload_KeepBegin(lb) ==
  LET allParts == Concat([j \in 1..Len(lb) |-> lb[j].rawLine.parts])
      thoughtTextBuffer ==
        Concat([j \in 1..Len(allParts) |->
                  IF allParts[j].thought /\ Truthy(allParts[j]) THEN allParts[j].text ELSE << >>])
      responseTextBuffer ==
        Concat([j \in 1..Len(allParts) |->
                  IF ~allParts[j].thought /\ Truthy(allParts[j]) THEN allParts[j].text ELSE << >>])
      finalText == cleanFinalText(responseTextBuffer, FALSE, TRUE)
  IN OutData((IF thoughtTextBuffer # << >> THEN << ThoughtPart(thoughtTextBuffer) >> ELSE << >>)
               \o (IF finalText # << >> THEN << TextPart(finalText) >> ELSE << >>),
             "STOP", [j \in 1..Len(lb) |-> lb[j].rawLine.id], FALSE)

\* lines 497-549: the final event of a complete answer
FinalPayload(lb) ==
  LET allParts == Concat([j \in 1..Len(lb) |-> lb[j].rawLine.parts])
      thoughtTextBuffer ==
        Concat([j \in 1..Len(allParts) |->
                  IF allParts[j].thought /\ Truthy(allParts[j]) THEN allParts[j].text ELSE << >>])
      responseTextBuffer ==
        Concat([j \in 1..Len(allParts) |->
                  IF ~allParts[j].thought /\ Truthy(allParts[j]) THEN allParts[j].text ELSE << >>])
      finalText == cleanFinalText(responseTextBuffer, TRUE, TRUE)
  IN OutData((IF thoughtTextBuffer # << >> THEN << ThoughtPart(thoughtTextBuffer) >> ELSE << >>)
               \o (IF finalText # << >> THEN << TextPart(finalText) >> ELSE << >>),
             "STOP", [j \in 1..Len(lb) |-> lb[j].rawLine.id], FALSE)

----------------------------------------------------------------------------
(* Streaming reassembly engine: handleStreamingRequest *)

MaxRetriesST == 2        \* config.maxRetries ranges over 1..MaxRetriesST

Txt_Long == << "a","b","c","d","e","f","g","h","i","j","k","l",
               "m","n","o","p","q","r","s","t","u","v","w","x" >>
Txt_Sp4  == << " ", " ", " ", " " >>
FinTail  == Drop(FINISHED_TOKEN, 1)          \* the finish marker without its first character

\* upstream streams of one attempt
StStreams ==
  { \* complete, nothing released before the end; a non-data line and a
    \* malformed payload among the events
    << EvOther,
       EvData(<< TextPart(BEGIN_TOKEN \o << "\n" >> \o Txt_Hi) >>),
       EvBad,
       EvData(<< TextPart(FINISHED_TOKEN) >>) >>,
    \* complete, with text before the begin marker and the marker split over two events
    << EvData(<< TextPart(Txt_ok) >>),
       EvData(<< TextPart(BEGIN_TOKEN \o Txt_Hi) >>),
       EvData(<< TextPart(Txt_Long) >>),
       EvData(<< TextPart(<< "a", " ", "[" >>) >>),
       EvData(<< TextPart(FinTail) >>) >>,
    \* the finish marker followed by four, and by five, whitespace characters
    << EvData(<< TextPart(BEGIN_TOKEN \o Txt_Hi) >>),
       EvData(<< TextPart(<< "a", "[" >>) >>),
       EvData(<< TextPart(FinTail) >>),
       EvData(<< TextPart(Txt_Sp4) >>) >>,
    << EvData(<< TextPart(BEGIN_TOKEN \o Txt_Hi) >>),
       EvData(<< TextPart(<< "a", "[" >>) >>),
       EvData(<< TextPart(FinTail) >>),
       EvData(<< TextPart(Txt_Sp4 \o << "\n" >>) >>) >>,
    \* a thought frame, then truncated after the begin marker
    << EvData(<< ThoughtPart(Txt_ok) >>),
       EvData(<< TextPart(BEGIN_TOKEN \o Txt_Hi) >>),
       EvData(<< TextPart(Txt_Long) >>) >>,
    \* a continuation that completes
    << EvData(<< TextPart(Txt_ok \o FINISHED_TOKEN) >>) >>,
    \* a function call in the middle of the stream
    << EvData(<< TextPart(Txt_ok) >>),
       EvData(<< CallPart >>),
       EvData(<< TextPart(Txt_Hi) >>),
       EvData(<< ThoughtPart(Txt_ok) >>) >> }

UpStream(evs) == [kind |-> "ok", code |-> 200, parts |-> evs, meta |-> "upstream"]

StOutcomes ==
  { UpStream(evs) : evs \in StStreams } \cup { UpStatus(c) : c \in {500, 503, 400} }
    \cup { UpNetErr }

SeedEvent == OutData(<< ThoughtPart(startOfThought) >>, "", << >>, FALSE)

\* lines 594-603
IncompleteEvent == OutData(<< TextPart(INCOMPLETE_TOKEN) >>, "MAX_RETRIES", << >>, FALSE)

\* lines 587-605, the code after the attempt loop.  linesBuffer is declared
\* with let inside the loop body (line 337) and is not in scope at line 589:
\* reading it throws a ReferenceError before anything is written.
StMaxRetriesReached(o) == [threw |-> TRUE, out |-> o]

\* lines 628-633: process().catch
StCatch(o) == Append(o, OutError(500, "Internal worker error.", "ReferenceError"))

\* lines 326-340: the start of attempt n, up to `await fetch`
StBeginAttempt(n, b, o) ==
  LET a == IF injectBegin /\ n = 1 THEN startOfThought ELSE << >>
  IN /\ attempts' = n
     /\ acc' = a
     /\ out' = (IF a # << >> THEN Append(o, SeedEvent) ELSE o)
     /\ hasFC' = FALSE
     /\ passthroughMode' = FALSE
     /\ lineBuffer' = << >>
     /\ textBuffer' = << >>
     /\ linesBuffer' = << >>
     /\ body' = b
     /\ calls' = Append(calls, b)
     /\ stream' = << >>
     /\ upstream' = << >>
     /\ rx' = << >>
     /\ itf0' = isThoughtFinished
     /\ pc' = "fetch"

\* variant: the process ends without closing the outbound stream
StFinish_NoClose(ws) ==
  /\ out' = out \o ws
  /\ closed' = closed
  /\ heartbeatInterval' = FALSE
  /\ pc' = "done"
  /\ UNCHANGED << attempts, acc, hasFC, passthroughMode, lineBuffer, textBuffer,
                  linesBuffer, body, calls, stream, upstream, rx, itf0 >>

\* variant: the process ends and closes, the timer stays set
StFinish_KeepTimer(ws) ==
  /\ out' = out \o ws
  /\ closed' = closed + 1
  /\ heartbeatInterval' = heartbeatInterval
  /\ pc' = "done"
  /\ UNCHANGED << attempts, acc, hasFC, passthroughMode, lineBuffer, textBuffer,
                  linesBuffer, body, calls, stream, upstream, rx, itf0 >>

\* the process ends: writes ws, then writer.close(); the finally handler
\* (lines 634-637) clears the timer before any further timer callback runs
StFinish(ws) ==
  /\ out' = out \o ws
  /\ closed' = closed + 1
  /\ heartbeatInterval' = FALSE
  /\ pc' = "done"
  /\ UNCHANGED << attempts, acc, hasFC, passthroughMode, lineBuffer, textBuffer,
                  linesBuffer, body, calls, stream, upstream, rx, itf0 >>

\* variant: the loop runs while attempts <= maxRetries + 1
StLoop_OneMore(b) ==
  IF attempts <= maxRetries + 1
  THEN StBeginAttempt(attempts + 1, b, out) /\ UNCHANGED << closed, heartbeatInterval >>
  ELSE LET r == StMaxRetriesReached(out)
       IN /\ out' = (IF r.threw THEN StCatch(r.out) ELSE r.out)
          /\ closed' = closed + 1
          /\ heartbeatInterval' = FALSE
          /\ pc' = "done"
          /\ body' = b
          /\ UNCHANGED << attempts, acc, hasFC, passthroughMode, lineBuffer, textBuffer,
                          linesBuffer, calls, stream, upstream, rx, itf0 >>

\* the end of the while body without return: the next attempt, or the code
\* after the loop
StLoop(b) ==
  IF attempts <= maxRetries
  THEN StBeginAttempt(attempts + 1, b, out) /\ UNCHANGED << closed, heartbeatInterval >>
  ELSE LET r == StMaxRetriesReached(out)
       IN /\ out' = (IF r.threw THEN StCatch(r.out) ELSE r.out)
          /\ closed' = closed + 1
          /\ heartbeatInterval' = FALSE
          /\ pc' = "done"
          /\ body' = b
          /\ UNCHANGED << attempts, acc, hasFC, passthroughMode, lineBuffer, textBuffer,
                          linesBuffer, calls, stream, upstream, rx, itf0 >>

NSIdle == thoughtAcc = << >> /\ formalAcc = << >> /\ lastUp = NoUp /\ resp = NoResp

\* lines 268-346: the state at the first `await fetch`, after setInterval
InitStreaming(rs, ms) ==
  /\ handler = "st"
  /\ req \in rs
  /\ maxRetries \in ms
  /\ injectBegin = InjectBeginTokenPrompt(req.body)
  /\ isThoughtFinished = ~injectBegin
  /\ itf0 = isThoughtFinished
  /\ attempts = 1
  /\ body = injectSystemPrompts(ClampBudget(req.body), injectBegin, TRUE)
  /\ calls = << body >>
  /\ acc = (IF injectBegin THEN startOfThought ELSE << >>)
  /\ out = (IF injectBegin THEN << SeedEvent >> ELSE << >>)
  /\ hasFC = FALSE /\ passthroughMode = FALSE
  /\ lineBuffer = << >> /\ textBuffer = << >> /\ linesBuffer = << >>
  /\ stream = << >> /\ upstream = << >> /\ rx = << >>
  /\ closed = 0
  /\ heartbeatInterval = TRUE /\ ticks = 0 /\ consumed = 0 /\ errored = FALSE
  /\ pc = "fetch"
  /\ hist = << >>
  /\ NSIdle
  /\ PureIdle

InitST == InitStreaming(Requests, 1..MaxRetriesST)

\* lines 561-584: what the attempt loop decides on a failed call, the error
\* event to write before closing, or StNoError to go on
StNoError == OutError(0, "", "")

StFailure(up, n, mr) ==
  IF up.kind = "status" /\ up.code \in FATAL_STATUS_CODES
  THEN OutError(up.code, "Upstream API returned a fatal error.", up.meta)
  ELSE IF n > mr
  THEN IF up.kind = "status"
       THEN OutError(up.code, "Upstream API error after max retries.", up.meta)
       ELSE OutError(500, "Internal Server Error after max retries.", "fetch error")
  ELSE StNoError

\* lines 343-346 and 561-584: the upstream call returns or fails; bytes is
\* what the body of a successful response will deliver
StFetchBytes(up, bytes) ==
  /\ handler = "st" /\ pc = "fetch"
  /\ hist' = (IF up.kind = "ok" THEN hist
              ELSE Append(hist, [n |-> attempts, end |-> up.kind, code |-> up.code,
                                 acc |-> acc, sent |-> << >>]))
  /\ IF up.kind = "ok"
     THEN /\ stream' = up.parts
          /\ upstream' = bytes
          /\ pc' = "read"
          /\ UNCHANGED << attempts, acc, out, hasFC, passthroughMode, lineBuffer,
                          textBuffer, linesBuffer, body, calls, rx, closed, itf0,
                          heartbeatInterval >>
     ELSE IF StFailure(up, attempts, maxRetries) # StNoError
     THEN StFinish(<< StFailure(up, attempts, maxRetries) >>)
     ELSE StLoop(body)
  /\ UNCHANGED << fn, arg, returned, req, handler, maxRetries, injectBegin, isThoughtFinished,
                  thoughtAcc, formalAcc, lastUp, resp, ticks, consumed, errored >>

\* every event of the response body is followed by a blank line
StFetch(up) == StFetchBytes(up, Bytes(up.parts))

\* lines 349-486: reader.read() returns a chunk of k symbols
StReadChunk(k) ==
  /\ handler = "st" /\ pc = "read"
  /\ k \in 1..Len(upstream)
  /\ \E st \in { ProcChunk([lineBuffer |-> lineBuffer, textBuffer |-> textBuffer,
                            linesBuffer |-> linesBuffer, itf |-> isThoughtFinished,
                            acc |-> acc, hasFC |-> hasFC, pass |-> passthroughMode,
                            out |-> out],
                           stream, SubSeq(upstream, 1, k), attempts) } :
        /\ upstream' = Drop(upstream, k)
        /\ rx' = rx \o SubSeq(upstream, 1, k)
        /\ lineBuffer' = st.lineBuffer
        /\ textBuffer' = st.textBuffer
        /\ linesBuffer' = st.linesBuffer
        /\ isThoughtFinished' = st.itf
        /\ acc' = st.acc
        /\ hasFC' = st.hasFC
        /\ passthroughMode' = st.pass
        /\ out' = st.out
  /\ UNCHANGED << fn, arg, returned, req, handler, maxRetries, injectBegin, pc, attempts, body, calls, itf0,
                  thoughtAcc, formalAcc, lastUp, resp, stream, closed, hist,
                  heartbeatInterval, ticks, consumed, errored >>

\* lines 488-559: reader.read() returns done
StReadDone ==
  /\ handler = "st" /\ pc = "read"
  /\ upstream = << >>
  /\ LET end == IF passthroughMode THEN "pass"
                ELSE IF isThoughtFinished /\ isResponseComplete(textBuffer) THEN "complete"
                ELSE "trunc"
     IN /\ hist' = Append(hist, [n |-> attempts, end |-> end, code |-> 200, acc |-> acc,
                                 sent |-> rx])
        /\ IF end = "pass" THEN StFinish(<< >>)
           ELSE IF end = "complete" THEN StFinish(<< FinalPayload(linesBuffer) >>)
           ELSE StLoop(buildRetryRequest(body, acc))
  /\ UNCHANGED << fn, arg, returned, req, handler, maxRetries, injectBegin, isThoughtFinished,
                  thoughtAcc, formalAcc, lastUp, resp, ticks, consumed, errored >>

\* lines 349 and 577-584: reader.read() rejects; the exception leaves the
\* read loop and is caught by the catch of the attempt
StReadError ==
  /\ handler = "st" /\ pc = "read"
  /\ hist' = Append(hist, [n |-> attempts, end |-> "readerr", code |-> 0, acc |-> acc,
                           sent |-> << >>])
  /\ IF StFailure(UpNetErr, attempts, maxRetries) # StNoError
     THEN StFinish(<< StFailure(UpNetErr, attempts, maxRetries) >>)
     ELSE StLoop(body)
  /\ UNCHANGED << fn, arg, returned, req, handler, maxRetries, injectBegin, isThoughtFinished,
                  thoughtAcc, formalAcc, lastUp, resp, ticks, consumed, errored >>

\* the streaming handler with an upstream whose streams are read to their end
NextST ==
  \/ \E up \in StOutcomes : StFetch(up)
  \/ \E k \in 1..Len(upstream) : StReadChunk(k)
  \/ StReadDone

SpecST == InitST /\ [][NextST]_vars

\* upstream outcomes of the streaming handler when reads may fail: a
\* truncated stream, a complete one, a function call, statuses and a
\* failed fetch
StErrStreams ==
  { << EvData(<< TextPart(BEGIN_TOKEN \o Txt_Hi) >>),
       EvData(<< TextPart(Txt_Long) >>) >>,
    << EvData(<< TextPart(BEGIN_TOKEN \o Txt_Hi \o FINISHED_TOKEN) >>) >>,
    << EvData(<< CallPart >>),
       EvData(<< TextPart(Txt_Hi) >>) >> }

StErrOutcomes ==
  { UpStream(evs) : evs \in StErrStreams } \cup { UpStatus(c) : c \in {500, 503} }
    \cup { UpNetErr }

\* the streaming handler with an upstream whose reads may fail; every step
\* is a step of the process, which is taken once the upstream call returns
\* or fails, a chunk arrives, or the upstream stream ends or fails
NextSTErr ==
  \/ \E up \in StErrOutcomes : StFetch(up)
  \/ \E k \in 1..Len(upstream) : StReadChunk(k)
  \/ StReadDone
  \/ StReadError

\* the upstream call returns or fails; the upstream stream ends or fails
StReturns == \E up \in StErrOutcomes : StFetch(up)
StEnds    == StReadDone \/ StReadError

\* every upstream call eventually returns or fails and every upstream stream,
\* whose bytes are finitely many, eventually ends or fails
MaxRetriesErr == 1       \* config.maxRetries ranges over 1..MaxRetriesErr

InitSTErr == InitST /\ maxRetries <= MaxRetriesErr

SpecSTErr == InitSTErr /\ [][NextSTErr]_vars /\ WF_vars(StReturns) /\ WF_vars(StEnds)

----------------------------------------------------------------------------
(* Both handlers *)

Init == (InitNS /\ maxRetries <= MaxRetriesST) \/ InitST

Next == NextNS \/ NextST

Spec == Init /\ [][Next]_vars

\* both handlers, with upstream reads that may fail
NextErr == NextNS \/ NextSTErr

InitErr == (InitNS \/ InitST) /\ maxRetries <= MaxRetriesErr

SpecErr == InitErr /\ [][NextErr]_vars

----------------------------------------------------------------------------
(* Keepalive: the heartbeat timer of handleStreamingRequest, lines 607-626,
   and the caller reading from or cancelling the outbound stream *)

MaxRetriesHB == 1        \* config.maxRetries ranges over 1..MaxRetriesHB
MaxTicks == 2            \* the timer callback runs at most MaxTicks times

\* requests with the User-Agent of Cherry Studio (isCherryRequest)
CherryRequests == { [r EXCEPT !.cherry = TRUE] : r \in Requests }

\* new TransformStream(): the writable side has the default high water mark
WritableHighWaterMark == 1

\* writer.desiredSize while the stream is not errored: 0 once closed, else
\* the high water mark minus the chunks written and not yet read
desiredSize ==
  IF closed > 0 /\ consumed = Len(out) THEN 0
  ELSE WritableHighWaterMark - (Len(out) - consumed)

\* heartbeatPayload, line 614-619
HeartbeatEvent(plain) ==
  [k |-> "heartbeat",
   parts |-> << IF plain THEN TextPart(<< >>) ELSE ThoughtPart(<< >>) >>,
   fin |-> "", raw |-> << >>, src |-> << >>, code |-> 0, details |-> "",
   verbatim |-> FALSE]

\* variant: the client type is not looked at
HeartbeatPlain_NoCherry == isThoughtFinished

\* line 616: isFromCherryRequest || isThoughtFinished
HeartbeatPlain == req.cherry \/ isThoughtFinished

\* lines 610-626: one run of the timer callback
Heartbeat ==
  /\ handler = "st" /\ heartbeatInterval
  /\ ticks < MaxTicks
  /\ ticks' = ticks + 1
  /\ out' = (IF ~errored /\ desiredSize > 0
             THEN Append(out, HeartbeatEvent(HeartbeatPlain))
             ELSE out)
  /\ UNCHANGED << fn, arg, returned, req, handler, maxRetries, injectBegin, pc, attempts, body, calls,
                  isThoughtFinished, itf0, thoughtAcc, formalAcc, lastUp, resp, acc,
                  hasFC, passthroughMode, lineBuffer, textBuffer, linesBuffer, stream,
                  upstream, rx, closed, heartbeatInterval, consumed, errored, hist >>

\* the caller reads everything written so far
ClientRead ==
  /\ handler = "st" /\ ~errored
  /\ consumed < Len(out)
  /\ consumed' = Len(out)
  /\ UNCHANGED << fn, arg, returned, req, handler, maxRetries, injectBegin, pc, attempts, body, calls,
                  isThoughtFinished, itf0, thoughtAcc, formalAcc, lastUp, resp, acc,
                  hasFC, passthroughMode, lineBuffer, textBuffer, linesBuffer, stream,
                  upstream, rx, out, closed, heartbeatInterval, ticks, errored, hist >>

\* the caller cancels the response body: the writable side becomes errored
ClientCancel ==
  /\ handler = "st" /\ ~errored /\ closed = 0
  /\ errored' = TRUE
  /\ UNCHANGED << fn, arg, returned, req, handler, maxRetries, injectBegin, pc, attempts, body, calls,
                  isThoughtFinished, itf0, thoughtAcc, formalAcc, lastUp, resp, acc,
                  hasFC, passthroughMode, lineBuffer, textBuffer, linesBuffer, stream,
                  upstream, rx, out, closed, heartbeatInterval, ticks, consumed, hist >>

InitHB == InitStreaming(Requests \cup CherryRequests, 1..MaxRetriesHB)

NextHB ==
  \/ StReturns
  \/ \E k \in 1..Len(upstream) : StReadChunk(k)
  \/ StReadDone
  \/ Heartbeat
  \/ ClientRead
  \/ ClientCancel

SpecHB == InitHB /\ [][NextHB]_vars

----------------------------------------------------------------------------
(* Request preparation: thinkingBudget and the injected prompts, lines
   115-136 and 291-309, over requests with and without earlier model turns *)

MaxRetriesPrep == 1      \* config.maxRetries ranges over 1..MaxRetriesPrep

ModelTurn == Content("model", << TextPart(Txt_ok) >>)

PrepContents ==
  { << UserTurn >>, << UserTurn, ModelTurn, UserTurn >>, << UserTurn, ModelTurn >> }

\* generationConfig.thinkingConfig.thinkingBudget when present: 0, below the
\* range, its two ends, inside it, above it
PrepBudgets == {-1, 0, 64, 128, 1024, 32768, 40000}

PrepRequests ==
  { [target |-> TRUE, cherry |-> FALSE, body |-> Body(cs, FALSE, 0, FALSE)]
      : cs \in PrepContents }
  \cup { [target |-> TRUE, cherry |-> FALSE, body |-> Body(cs, TRUE, b, FALSE)]
           : cs \in PrepContents, b \in PrepBudgets }

\* upstream answers: no marker, the finish marker without and with the
\* begin marker
PrepAnswers ==
  { << TextPart(Txt_Hi) >>,
    << TextPart(Txt_Hi \o FINISHED_TOKEN) >>,
    << TextPart(BEGIN_TOKEN \o Txt_Hi \o FINISHED_TOKEN) >> }

InitPrep ==
  \/ InitNonStreaming(PrepRequests, 1..MaxRetriesPrep)
  \/ InitStreaming(PrepRequests, 1..MaxRetriesPrep)

NextPrep ==
  \/ \E ps \in PrepAnswers : NSAttempt(UpOk(ps))
  \/ \E ps \in PrepAnswers : StFetch(UpStream(<< EvData(ps) >>))
  \/ \E k \in 1..Len(upstream) : StReadChunk(k)
  \/ StReadDone

SpecPrep == InitPrep /\ [][NextPrep]_vars

----------------------------------------------------------------------------
(* Passthrough: requests the handlers forward without processing, lines
   95-113 and 269-286 *)

\* variant: only the path decides
IsPassthrough_TargetOnly(r) == ~r.target

\* lines 95-97 and 108: the path names no target model, or the body asks
\* for a response schema
IsPassthrough(r) == ~r.target \/ isStructuredOutputRequest(r.body)

PassRequests ==
  { [target |-> t, cherry |-> FALSE, body |-> Body(cs, FALSE, 0, sc)]
      : t \in BOOLEAN, sc \in BOOLEAN, cs \in { << UserTurn >>, << UserTurn, ModelTurn, UserTurn >> } }
  \cup { [target |-> t, cherry |-> FALSE, body |-> Body(cs, TRUE, b, sc)]
           : t \in BOOLEAN, sc \in BOOLEAN,
             cs \in { << UserTurn >>, << UserTurn, ModelTurn, UserTurn >> }, b \in {0, 64} }

\* outcomes of the one upstream call of a passthrough
PassOutcomes ==
  { UpOk(<< TextPart(Txt_Hi) >>), UpOk(<< TextPart(Txt_Hi \o FINISHED_TOKEN) >>),
    UpStatus(503), UpStatus(400), UpStatus(401), UpNetErr }

\* the Response that fetch resolved with, returned as it is
UpstreamResponse(up) ==
  [kind |-> "upstream", status |-> up.code, parts |-> up.parts, fin |-> "upstream",
   meta |-> up.meta, message |-> ""]

\* either handler at its entry, with a request it passes through
InitPassThrough(rs, ms) ==
  /\ handler \in {"ns", "st"}
  /\ req \in rs
  /\ IsPassthrough(req)
  /\ maxRetries \in ms
  /\ injectBegin = FALSE
  /\ pc = "pass"
  /\ attempts = 0
  /\ body = req.body
  /\ calls = << >>
  /\ isThoughtFinished = FALSE
  /\ NSIdle
  /\ hist = << >>
  /\ StreamIdle
  /\ PureIdle

\* `return fetch(upstreamRequest)`, lines 101 and 112, 275 and 285; a fetch
\* that fails is answered by the catch of the entry point, lines 54-57
PassThrough(up) ==
  /\ pc = "pass"
  /\ calls' = Append(calls, body)
  /\ lastUp' = up
  /\ hist' = Append(hist, up)
  /\ resp' = (IF up.kind = "neterr"
              THEN jsonError(500, "Internal Server Error", "fetch error")
              ELSE UpstreamResponse(up))
  /\ pc' = "done"
  /\ UNCHANGED << fn, arg, returned, req, handler, maxRetries, injectBegin, attempts, body, isThoughtFinished,
                  itf0, thoughtAcc, formalAcc, acc, hasFC, passthroughMode, lineBuffer,
                  textBuffer, linesBuffer, stream, upstream, rx, out, closed,
                  heartbeatInterval, ticks, consumed, errored >>

Processed(rs) == { r \in rs : ~IsPassthrough(r) }

InitPass ==
  \/ InitPassThrough(PassRequests, 1..MaxRetriesPrep)
  \/ InitNonStreaming(Processed(PassRequests), 1..MaxRetriesPrep)
  \/ InitStreaming(Processed(PassRequests), 1..MaxRetriesPrep)

NextPass ==
  \/ \E up \in PassOutcomes : PassThrough(up)
  \/ NextPrep

SpecPass == InitPass /\ [][NextPass]_vars

----------------------------------------------------------------------------
(* The functions of core.js applied on their own to texts and bodies *)

Txt_Hello == << " ", "H", "e", "l", "l", "o" >>

\* texts: the begin marker with what may follow it, the finish marker with
\* what may come before and after it, texts with whitespace around
PureTexts ==
  { BEGIN_TOKEN \o t : t \in { << >>, Txt_Hello, << ".", " " >> \o Txt_ok, << "." >>,
                                << " " >>, << Backtick >>, << "\n" >> \o Txt_Hi, Txt_Hi } }
  \cup { << >>, Txt_Hi, << " " >> \o BEGIN_TOKEN, Txt_ok \o BEGIN_TOKEN \o Txt_Hello,
         SubSeq(BEGIN_TOKEN, 1, Len(BEGIN_TOKEN) - 1) \o Txt_Hello,
         SubSeq(FINISHED_TOKEN, 1, TOKEN_LEN - 1), Tail(FINISHED_TOKEN),
         BEGIN_TOKEN \o Txt_Hi \o FINISHED_TOKEN }
  \cup { pre \o FINISHED_TOKEN \o post :
           pre \in { << >>, Txt_Hi, FINISHED_TOKEN \o << "x" >>, Txt_Hi \o << " " >> },
           post \in { << >>, << " " >>, << "\n" >>, << " ", "\n", "\t", "\r" >>,
                      << "x" >>, << " ", "x" >>, << "\n", "." >>, << "x", " " >> } }
  \cup { pre \o Txt_Hi \o post :
           pre \in { << >>, << " " >>, << "\n" >>, << " ", " " >>, << "\n", "\n" >> },
           post \in { << >>, << " " >>, << "\n" >>, << " ", " " >>, << "\t", "\n" >> } }

PureInputs == { PureArg(t, NoBody, FALSE, FALSE) : t \in PureTexts }

\* no handler runs
HandlerIdle ==
  /\ handler = "none"
  /\ req = [target |-> FALSE, cherry |-> FALSE, body |-> NoBody]
  /\ maxRetries = 1
  /\ injectBegin = FALSE
  /\ pc = "none"
  /\ attempts = 0
  /\ body = NoBody
  /\ calls = << >>
  /\ isThoughtFinished = FALSE
  /\ NSIdle
  /\ hist = << >>
  /\ StreamIdle

handlerVars ==
  << req, handler, maxRetries, injectBegin, pc, attempts, body, calls, isThoughtFinished,
     itf0, thoughtAcc, formalAcc, lastUp, resp, acc, hasFC, passthroughMode, lineBuffer,
     textBuffer, linesBuffer, stream, upstream, rx, out, closed, heartbeatInterval, ticks,
     consumed, errored, hist >>

\* contents of the body argument: missing, empty, ending with a user turn,
\* ending with a model turn whose parts hold text, a call, nothing
PureContents ==
  { << >>, << UserTurn >>, << UserTurn, ModelTurn >>, << UserTurn, ModelTurn, UserTurn >>,
    << UserTurn, Content("model", << TextPart(Txt_ok), CallPart >>) >>,
    << UserTurn, Content("model", << TextPart(Txt_ok), TextPart(<< >>) >>) >>,
    << UserTurn, Content("model", << ThoughtPart(Txt_ok) >>) >>,
    << UserTurn, Content("model", << CallPart >>) >>,
    << UserTurn, Content("model", << >>) >>,
    << UserTurn, [role |-> "model", isArr |-> FALSE, parts |-> << >>] >> }

\* the two system-instruction fields of the body argument:
\* << systemInstruction, system_instruction >>
PureSys ==
  { << NoSys, NoSys >>, << Sys(<< TextPart(Txt_ok) >>), NoSys >>,
    << NoSys, Sys(<< TextPart(Txt_Hi) >>) >>,
    << Sys(<< TextPart(Txt_ok) >>), Sys(<< TextPart(Txt_Hi) >>) >>,
    << NullSys, NoSys >>, << NoSys, NullSys >>,
    << Sys(<< TextPart(Txt_ok) >>), NullSys >>, << NullSys, Sys(<< TextPart(Txt_Hi) >>) >> }

PureBodies ==
  { [Body(cs, FALSE, 0, FALSE) EXCEPT !.systemInstruction = sy[1],
                                      !.system_instruction = sy[2]]
      : cs \in PureContents, sy \in PureSys }
  \cup { [Body(<< >>, FALSE, 0, FALSE) EXCEPT !.hasContents = FALSE,
                                               !.systemInstruction = sy[1],
                                               !.system_instruction = sy[2]]
           : sy \in PureSys }

PureBodyInputs ==
  { PureArg(Txt_Hi, b, ib, if) : b \in PureBodies, ib \in BOOLEAN, if \in BOOLEAN }

InitPure ==
  /\ fn = "none"
  /\ arg \in PureInputs \cup PureBodyInputs
  /\ returned = NoRet
  /\ HandlerIdle

\* variant: the function writes to its argument
WritesTo_Argument == "argument"

\* the object a function writes to: a copy of its own made by
\* structuredClone (lines 54 and 231), or the argument itself (lines 22-28)
WritesTo_injectSystemPrompts == "copy"
WritesTo_buildRetryRequest == "copy"
WritesTo_normalizeSystemInstruction == "argument"

\* the value of the argument object after a call that returned result
ArgumentAfter(b, target, result) == IF target = "argument" THEN result ELSE b

\* isFormalResponseStarted(text)
Call_isFormalResponseStarted ==
  /\ fn = "none" /\ arg \in PureInputs
  /\ fn' = "isFormalResponseStarted"
  /\ returned' = [NoRet EXCEPT !.bool = isFormalResponseStarted(arg.text)]
  /\ UNCHANGED << arg, handlerVars >>

\* isResponseComplete(text)
Call_isResponseComplete ==
  /\ fn = "none" /\ arg \in PureInputs
  /\ fn' = "isResponseComplete"
  /\ returned' = [NoRet EXCEPT !.bool = isResponseComplete(arg.text)]
  /\ UNCHANGED << arg, handlerVars >>

\* the text injectSystemPrompts leaves in a model turn whose one part holds
\* text, with both flags set
InjectedText(text) ==
  InjectContent(Content("model", << TextPart(text) >>), TRUE, TRUE).parts[1].text

\* cleanFinalText(text) with its default flags, on the text of a model turn
\* that went through injectSystemPrompts
Call_cleanFinalText ==
  /\ fn = "none" /\ arg \in PureInputs
  /\ fn' = "cleanFinalText"
  /\ returned' = [NoRet EXCEPT !.text = cleanFinalText(InjectedText(arg.text), TRUE, TRUE)]
  /\ UNCHANGED << arg, handlerVars >>

\* injectSystemPrompts(body, config, injectBeginTokenPrompt, injectFinishTokenPrompt)
Call_injectSystemPrompts ==
  /\ fn = "none" /\ arg \in PureBodyInputs
  /\ fn' = "injectSystemPrompts"
  /\ \E r \in { injectSystemPrompts(arg.body, arg.ib, arg.if) } :
       /\ returned' = [NoRet EXCEPT !.body = r]
       /\ arg' = [arg EXCEPT !.body = ArgumentAfter(@, WritesTo_injectSystemPrompts, r)]
  /\ UNCHANGED handlerVars

\* buildRetryRequest(currentBody, newResponseText)
Call_buildRetryRequest ==
  /\ fn = "none" /\ arg \in PureBodyInputs
  /\ fn' = "buildRetryRequest"
  /\ \E r \in { buildRetryRequest(arg.body, arg.text) } :
       /\ returned' = [NoRet EXCEPT !.body = r]
       /\ arg' = [arg EXCEPT !.body = ArgumentAfter(@, WritesTo_buildRetryRequest, r)]
  /\ UNCHANGED handlerVars

\* normalizeSystemInstruction(body), and the same call once more on the
\* body it returned
Call_normalizeSystemInstruction ==
  /\ \/ fn = "none" /\ arg \in PureBodyInputs /\ fn' = "normalizeSystemInstruction"
     \/ fn = "normalizeSystemInstruction" /\ fn' = "normalizeSystemInstruction twice"
  /\ \E r \in { normalizeSystemInstruction(arg.body) } :
       /\ returned' = [NoRet EXCEPT !.body = r]
       /\ arg' = [arg EXCEPT !.body = ArgumentAfter(@, WritesTo_normalizeSystemInstruction, r)]
  /\ UNCHANGED handlerVars

NextPure ==
  \/ Call_isFormalResponseStarted
  \/ Call_isResponseComplete
  \/ Call_cleanFinalText
  \/ Call_injectSystemPrompts
  \/ Call_buildRetryRequest
  \/ Call_normalizeSystemInstruction

SpecPure == InitPure /\ [][NextPure]_vars

----------------------------------------------------------------------------
(* Event framing: upstream streams with events that are not parsed, with   *)
(* text before the begin marker, and with a last event that upstream does  *)
(* not terminate by a blank line                                           *)

MaxRetriesEv == 1        \* config.maxRetries ranges over 1..MaxRetriesEv

EvStreams ==
  { \* a non-data line, a data line without payload and a malformed payload
    \* among the events of a complete answer
    << EvOther,
       EvData(<< TextPart(BEGIN_TOKEN \o << "\n" >> \o Txt_Hi) >>),
       EvNoPayload,
       EvBad,
       EvData(<< TextPart(FINISHED_TOKEN) >>) >>,
    \* text before the begin marker, then truncated
    << EvData(<< TextPart(Txt_ok) >>),
       EvData(<< TextPart(BEGIN_TOKEN \o Txt_Hi) >>),
       EvData(<< TextPart(Txt_Long) >>) >>,
    \* text before the begin marker, complete
    << EvData(<< TextPart(Txt_ok) >>),
       EvData(<< TextPart(BEGIN_TOKEN \o Txt_Hi \o FINISHED_TOKEN) >>) >>,
    \* a continuation that completes
    << EvData(<< TextPart(Txt_ok \o FINISHED_TOKEN) >>) >> }

\* the upstream call returns a body whose last event is not followed by a
\* blank line
StFetchOpen(up) ==
  /\ up.kind = "ok"
  /\ StFetchBytes(up, SubSeq(Bytes(up.parts), 1, Len(Bytes(up.parts)) - 2))

InitEv == InitStreaming(Requests, 1..MaxRetriesEv)

NextEv ==
  \/ \E evs \in EvStreams : StFetch(UpStream(evs))
  \/ \E evs \in EvStreams : StFetchOpen(UpStream(evs))
  \/ \E k \in 1..Len(upstream) : StReadChunk(k)
  \/ StReadDone

SpecEv == InitEv /\ [][NextEv]_vars

\* the same upstream, with the keepalive timer and the caller reading
NextEvHB ==
  \/ \E evs \in EvStreams : StFetch(UpStream(evs))
  \/ \E k \in 1..Len(upstream) : StReadChunk(k)
  \/ StReadDone
  \/ Heartbeat
  \/ ClientRead

SpecEvHB == InitEv /\ [][NextEvHB]_vars

----------------------------------------------------------------------------
(* Properties *)

HasMarker(t) == Contains(t, BEGIN_TOKEN) \/ Contains(t, FINISHED_TOKEN)

\* the parts delivered to the caller: the parts of the response body, the
\* parts of every event written to the stream
DeliveredParts ==
  IF handler = "ns" THEN resp.parts
  ELSE Concat([j \in 1..Len(out) |-> out[j].parts])

\* C1: for every upstream behaviour, no text part of a response body or of
\* a stream event delivered to the caller contains the begin marker or the
\* finish marker.
C1_NoMarkerDelivered ==
  \A j \in 1..Len(DeliveredParts) :
    DeliveredParts[j].hasText => ~HasMarker(DeliveredParts[j].text)

\* every one of the maxRetries + 1 attempts of the streaming handler ended
\* with a truncated upstream stream
StAllTruncated ==
  /\ handler = "st" /\ pc = "done"
  /\ Len(hist) = maxRetries + 1
  /\ \A j \in 1..Len(hist) : hist[j].end = "trunc"

\* C2: when every attempt ended truncated, the streaming engine forwards
\* the still-buffered events verbatim, then emits one terminal event whose
\* only part is the incomplete marker with finishReason MAX_RETRIES, then
\* closes the stream; it made exactly maxRetries + 1 upstream calls.
C2_ExhaustedEmitsIncomplete ==
  StAllTruncated =>
    /\ Len(calls) = maxRetries + 1
    /\ closed = 1
    /\ Len(out) >= Len(linesBuffer) + 1
    /\ out[Len(out)] = IncompleteEvent
    /\ \A j \in 1..Len(linesBuffer) :
         out[Len(out) - 1 - Len(linesBuffer) + j] = WriteRaw(linesBuffer[j])

\* every one of the maxRetries + 1 attempts of the non-streaming handler got
\* an upstream success without a function call and without a complete answer
NSAllTruncated ==
  /\ handler = "ns" /\ pc = "done"
  /\ Len(hist) = maxRetries + 1
  /\ \A j \in 1..Len(hist) : hist[j].kind = "ok" /\ ~NSHasFunctionCall(hist[j].parts)
  /\ ~(isThoughtFinished /\ isResponseComplete(formalAcc))

\* C3: when all maxRetries + 1 attempts are used without a complete answer,
\* the non-streaming handler returns HTTP 200 with finishReason MAX_RETRIES;
\* the formal text part is stripMarkers(formal text), a line break and the
\* incomplete marker, preceded by a thought part holding the accumulated
\* thought text when that text is non-empty.
C3_ExhaustedBestEffort ==
  NSAllTruncated =>
    /\ resp.status = 200
    /\ resp.fin = "MAX_RETRIES"
    /\ LET formal == TextPart(cleanFinalText(formalAcc, TRUE, TRUE) \o << "\n" >>
                                \o INCOMPLETE_TOKEN)
       IN /\ thoughtAcc # << >> => resp.parts = << ThoughtPart(thoughtAcc), formal >>
          /\ thoughtAcc = << >> => resp.parts = << formal >>
    /\ EndsWith(resp.parts[Len(resp.parts)].text, INCOMPLETE_TOKEN)

C3_Witness ==
  /\ NSAllTruncated
  /\ maxRetries >= 1
  /\ thoughtAcc # << >>
  /\ Contains(formalAcc, BEGIN_TOKEN) /\ Contains(formalAcc, Txt_Hi)

\* C8: after an upstream success, when the thought phase has ended and the
\* accumulated formal text is complete, the non-streaming handler returns
\* HTTP 200 with the upstream response whose parts are replaced by exactly
\* the thought part and the stripped formal text, and calls upstream no more.
C8_CompleteResponse ==
  ( /\ handler = "ns"
    /\ lastUp.kind = "ok" /\ ~NSHasFunctionCall(lastUp.parts)
    /\ isThoughtFinished /\ isResponseComplete(formalAcc) )
  => /\ pc = "done"
     /\ resp.status = 200
     /\ resp.meta = lastUp.meta
     /\ resp.parts = << ThoughtPart(thoughtAcc),
                        TextPart(cleanFinalText(formalAcc, TRUE, TRUE)) >>
     /\ Len(calls) = attempts
     /\ ~ENABLED NextNS

C8_Witness ==
  /\ handler = "ns" /\ pc = "done" /\ attempts >= 2
  /\ lastUp.kind = "ok" /\ ~NSHasFunctionCall(lastUp.parts)
  /\ isThoughtFinished /\ isResponseComplete(formalAcc)
  /\ resp.parts[2].text = Txt_Hi \o Txt_ok

\* C9: an upstream success with a function call part, on any attempt, is
\* returned unchanged with status 200 on that attempt, whatever was
\* accumulated before, and upstream is called no more.
C9_FunctionCallShortCircuit ==
  ( /\ handler = "ns"
    /\ lastUp.kind = "ok"
    /\ \E j \in 1..Len(lastUp.parts) : lastUp.parts[j].fc )
  => /\ pc = "done"
     /\ resp.status = 200
     /\ resp.parts = lastUp.parts
     /\ resp.meta = lastUp.meta
     /\ Len(calls) = attempts
     /\ ~ENABLED NextNS

C9_Witness ==
  /\ handler = "ns" /\ pc = "done" /\ attempts >= 2
  /\ lastUp.kind = "ok" /\ NSHasFunctionCall(lastUp.parts)
  /\ formalAcc # << >>
  /\ resp.parts = lastUp.parts

\* the last upstream call of the request was answered with a fatal status
FatalSeen ==
  IF handler = "ns" THEN lastUp.kind = "status" /\ lastUp.code = 500
  ELSE /\ hist # << >>
       /\ hist[Len(hist)].end = "status" /\ hist[Len(hist)].code = 500

\* C10: in both handlers a fatal upstream status (500) ends the request on
\* that attempt: no further upstream call, and the upstream status and body
\* are surfaced, as an HTTP error response or as an error event and close.
C10_FatalStatusAborts ==
  FatalSeen =>
    /\ pc = "done"
    /\ Len(calls) = attempts
    /\ ~ENABLED Next
    /\ handler = "ns" =>
         resp.kind = "error" /\ resp.status = 500 /\ resp.meta = lastUp.meta
    /\ handler = "st" =>
         /\ closed = 1
         /\ out[Len(out)].k = "error" /\ out[Len(out)].code = 500
         /\ out[Len(out)].details = "upstream"
         /\ hist[Len(hist)].n = attempts

C10_Witness == FatalSeen /\ attempts = 2 /\ maxRetries = 2 /\ handler = "st" /\ Len(out) >= 2

\* the bytes a write puts on the outbound stream; an event the engine has
\* rewritten or built is the single symbol X
Flat(o) ==
  IF o.k = "byte" THEN o.raw
  ELSE IF o.k = "line" THEN o.raw \o << SymNL, SymNL >>
  ELSE IF o.k = "data" /\ o.verbatim /\ Len(o.src) = 1
       THEN << SymH(o.src[1][2]), SymT(o.src[1][2]), SymNL, SymNL >>
       ELSE << [f |-> "X", i |-> 0] >>

FlatAll(os) == Concat([j \in 1..Len(os) |-> Flat(os[j])])

\* the attempt that has just ended, and how
LastEnd == IF hist = << >> THEN "none" ELSE hist[Len(hist)].end

\* index in the stream of the first event with a function call, 0 if none
FirstCall(evs) ==
  LET IsCall(e) == e.kind = "data" /\ parseParts(e.parts).hasFunctionCall
  IN FirstIdx([i \in 1..Len(evs) |-> IsCall(evs[i])])

\* C4: once a function-call event was observed in an attempt, every byte
\* received after it in that attempt is forwarded unmodified and in order,
\* and the end of the upstream stream closes the outbound stream, with no
\* retry.
C4_PassthroughForwardsAll ==
  (handler = "st" /\ pc = "done" /\ LastEnd = "pass") =>
    LET i == FirstCall(stream)
        IsIt(o) == o.k = "data" /\ o.src = << << attempts, i >> >>
        j == FirstIdx([x \in 1..Len(out) |-> IsIt(out[x])])
    IN /\ j # 0
       /\ FlatAll(SubSeq(out, j + 1, Len(out))) = Drop(rx, 4 * i)
       /\ closed = 1
       /\ Len(calls) = attempts

\* the text of the last model turn of a request body
LastModelText(b) ==
  LET c == b.contents[Len(b.contents)]
  IN Concat([j \in 1..Len(c.parts) |-> c.parts[j].text])

\* next is prev with text appended as model-role content
ContinuationOf(prev, next, text) ==
  LET p == prev.contents
      q == next.contents
  IN /\ [next EXCEPT !.contents = p] = prev
     /\ IF p[Len(p)].role = "model"
        THEN /\ Len(q) = Len(p)
             /\ SubSeq(q, 1, Len(p) - 1) = SubSeq(p, 1, Len(p) - 1)
             /\ q[Len(q)].role = "model"
             /\ LastModelText(next) = LastModelText(prev) \o text
        ELSE /\ Len(q) = Len(p) + 1
             /\ SubSeq(q, 1, Len(p)) = p
             /\ q[Len(q)].role = "model"
             /\ LastModelText(next) = text

\* no upstream event is delivered to the caller twice
NoDuplicate ==
  \A j, k \in 1..Len(out) :
    j # k => \A a \in 1..Len(out[j].src) : \A b \in 1..Len(out[k].src) :
               out[j].src[a] # out[k].src[b]

TwoTruncatedThenComplete ==
  /\ handler = "st" /\ pc = "done"
  /\ Len(hist) = 3
  /\ hist[1].end = "trunc" /\ hist[2].end = "trunc" /\ hist[3].end = "complete"

\* C5: when the first two upstream streams end truncated and the third ends
\* complete, exactly three upstream calls are made, the second and the third
\* being the previous body with the text accumulated in the preceding
\* attempt appended as model-role content, and no upstream event reaches
\* the caller twice.
C5_TwoContinuations ==
  TwoTruncatedThenComplete =>
    /\ Len(calls) = 3
    /\ ContinuationOf(calls[1], calls[2], hist[1].acc)
    /\ ContinuationOf(calls[2], calls[3], hist[2].acc)
    /\ NoDuplicate
    /\ closed = 1

C5_Witness ==
  /\ TwoTruncatedThenComplete
  /\ Contains(hist[2].acc, Txt_Hi)
  /\ \E j \in 1..Len(out) : out[j].fin = "STOP" /\ out[j].src # << >>

\* the formal text of an upstream stream: the non-thought text of its events
FullText(evs) ==
  Concat([i \in 1..Len(evs) |->
            IF evs[i].kind = "data" THEN parseParts(evs[i].parts).responseText ELSE << >>])

\* the non-thought text of the parts of a sequence of writes
FormalOf(os) ==
  LET ps == Concat([j \in 1..Len(os) |-> os[j].parts])
  IN Concat([j \in 1..Len(ps) |->
               IF Truthy(ps[j]) /\ ~ps[j].thought THEN ps[j].text ELSE << >>])

\* the events of attempt n that were written to the outbound stream
AttemptItems(n) == SelectSeq(out, LAMBDA o : o.src # << >> /\ o.src[1][1] = n)

\* what the engine writes for the stream evs delivered as one single chunk
OneChunk(evs, n) ==
  LET st == ProcChunk([lineBuffer |-> << >>, textBuffer |-> << >>, linesBuffer |-> << >>,
                       itf |-> itf0, acc |-> << >>, hasFC |-> FALSE, pass |-> FALSE,
                       out |-> << >>],
                      evs, Bytes(evs), n)
  IN IF ~st.pass /\ st.itf /\ isResponseComplete(st.textBuffer)
     THEN Append(st.out, FinalPayload(st.linesBuffer))
     ELSE st.out

\* an attempt without function call whose stream was read to its end
AttemptRead ==
  /\ handler = "st" /\ pc = "done" /\ ~passthroughMode
  /\ LastEnd \in {"complete", "trunc"}

\* C6: for an upstream event sequence whose formal text ends with the
\* finish marker, the formal text delivered to the caller is the same for
\* every split of the upstream bytes into chunks as for a single chunk.
C6_ChunkingIndependent ==
  (AttemptRead /\ isResponseComplete(FullText(stream))) =>
    FormalOf(AttemptItems(attempts)) = FormalOf(OneChunk(stream, attempts))

C6_Witness ==
  /\ AttemptRead /\ isResponseComplete(FullText(stream))
  /\ LastEnd = "complete"
  /\ Len(stream) = 5
  /\ Len(AttemptItems(attempts)) = 3
  /\ FormalOf(AttemptItems(attempts)) = Txt_Hi \o Txt_Long \o << "a" >>

RECURSIVE SumLen(_)
SumLen(ts) == IF ts = << >> THEN 0 ELSE Len(Head(ts)) + SumLen(Tail(ts))

\* the events of the current attempt released by the lookahead so far
Released ==
  SelectSeq(out, LAMBDA o : /\ o.k = "data" /\ o.fin # "STOP"
                            /\ Len(o.src) = 1 /\ o.src[1][1] = attempts)

\* number of characters of the attempt's formal text forwarded so far
ForwardedLen ==
  SumLen([j \in 1..Len(Released) |->
            parseParts(stream[Released[j].src[1][2]].parts).responseText])

\* C7: outside passthrough mode no character of a finish marker that ends
\* the attempt's formal text is ever forwarded to the caller, for every
\* split of that text into upstream events.
C7_MarkerNeverPartiallyForwarded ==
  ( /\ handler = "st" /\ pc \in {"read", "done"} /\ ~passthroughMode
    /\ isResponseComplete(FullText(stream)) )
  => ForwardedLen <= Len(TrimEnd(FullText(stream))) - TOKEN_LEN

----------------------------------------------------------------------------
(* Upstream failures *)

\* the non-streaming request has ended and every upstream call was answered
\* with a retryable status
NSAllRetryable ==
  /\ handler = "ns" /\ pc = "done" /\ hist # << >>
  /\ \A j \in 1..Len(hist) :
       hist[j].kind = "status" /\ hist[j].code \in {503, 403, 429}

\* C11: when every attempt of the non-streaming handler returns a retryable
\* status (503, 403, 429), the handler makes exactly maxRetries + 1 upstream
\* calls and then returns an error response with the last upstream status
\* and body.
C11_RetryableStatusRetried ==
  /\ NSAllRetryable =>
       /\ Len(calls) = maxRetries + 1
       /\ resp.kind = "error"
       /\ resp.status = hist[Len(hist)].code
       /\ resp.meta = hist[Len(hist)].meta
  /\ ( /\ handler = "ns" /\ hist # << >> /\ Len(hist) <= maxRetries
       /\ \A j \in 1..Len(hist) :
            hist[j].kind = "status" /\ hist[j].code \in {503, 403, 429} )
     => pc = "loop" /\ resp = NoResp

C11_Witness ==
  /\ NSAllRetryable
  /\ maxRetries = 3
  /\ hist[1].code = 503 /\ hist[Len(hist)].code = 429
  /\ resp.status = 429

\* the non-streaming request has ended and every upstream call was answered
\* with a status that is neither fatal nor retryable
NSAllOtherStatus ==
  /\ handler = "ns" /\ pc = "done" /\ hist # << >>
  /\ \A j \in 1..Len(hist) :
       /\ hist[j].kind = "status"
       /\ hist[j].code \notin FATAL_STATUS_CODES \cup RETRYABLE_STATUS_CODES

\* C12: for every maxRetries, a status that is neither OK, fatal nor
\* retryable is retried up to a fixed cap smaller than maxRetries, and the
\* caller then receives an error response with the upstream status and body.
C12_OtherStatusCapped ==
  NSAllOtherStatus =>
    /\ MAX_NON_RETRYABLE_STATUS_RETRIES < maxRetries
    /\ Len(calls) = MAX_NON_RETRYABLE_STATUS_RETRIES + 1
    /\ resp.kind = "error"
    /\ resp.status = hist[Len(hist)].code
    /\ resp.meta = hist[Len(hist)].meta

\* the non-streaming request has ended and every upstream call failed
\* without a response
NSAllFetchFailed ==
  /\ handler = "ns" /\ pc = "done" /\ hist # << >>
  /\ \A j \in 1..Len(hist) : hist[j].kind = "neterr"

\* C13: for every maxRetries, when every upstream call fails at transport
\* level the non-streaming handler retries up to the cap MAX_FETCH_RETRIES
\* and then returns a generic internal error with HTTP status 500.
C13_FetchFailureCapped ==
  NSAllFetchFailed =>
    /\ Len(calls) = MAX_FETCH_RETRIES + 1
    /\ resp.kind = "error"
    /\ resp.status = 500

\* the decision of the non-streaming handler on a failed call number n:
\* error response, another call, or the end of the loop without an error
NSDecision(up, n, mr) ==
  IF NSFailure(up, n, mr) # NoResp THEN "error"
  ELSE IF n > mr THEN "exhausted"
  ELSE "retry"

\* the last attempt of the streaming request that has ended, when it ended
\* with an upstream status or a transport failure
StLastFailed == handler = "st" /\ LastEnd \in {"status", "neterr"}

\* C14: for every failed upstream call (status or transport failure) and
\* every attempt number the streaming handler decides as the non-streaming
\* handler does: it surfaces an error, as an error event and close, exactly
\* when the non-streaming handler returns an error response, with the same
\* status, and calls upstream again exactly when that handler does.
C14_SameFailureDecision ==
  StLastFailed =>
    LET h  == hist[Len(hist)]
        up == IF h.end = "status" THEN UpStatus(h.code) ELSE UpNetErr
        d  == NSDecision(up, h.n, maxRetries)
    IN /\ d = "error" <=> (pc = "done" /\ closed = 1 /\ out[Len(out)].k = "error")
       /\ d = "error" => out[Len(out)].code = NSFailure(up, h.n, maxRetries).status
       /\ d = "retry" <=> (pc # "done" /\ Len(calls) > h.n)

----------------------------------------------------------------------------
(* Attempt budget and termination *)

\* C15: for every request and every upstream behaviour (truncations, error
\* statuses, failed fetches and failed reads in any mix) each handler makes
\* at most maxRetries + 1 upstream calls for one inbound request.
C15_AtMostMaxRetriesPlusOneCalls ==
  /\ Len(calls) <= maxRetries + 1
  /\ attempts <= maxRetries + 1
  /\ Len(calls) = attempts

C15_Witness ==
  /\ handler = "st" /\ pc = "done"
  /\ Len(calls) = maxRetries + 1
  /\ hist[1].end = "readerr" /\ hist[1].acc # startOfThought
  /\ hist[Len(hist)].end = "trunc"

\* the streaming request is in a terminal state: the end of a passthrough
\* attempt, a complete answer, a surfaced error, or retries exhausted
StTerminal ==
  /\ pc = "done"
  /\ \/ LastEnd \in {"pass", "complete"}
     \/ LastEnd \in {"status", "neterr", "readerr"} /\ out[Len(out)].k = "error"
     \/ LastEnd = "trunc" /\ attempts > maxRetries

\* C16: provided every upstream call returns or fails and every upstream
\* stream ends, every streaming request eventually closes its outbound
\* stream, closes it exactly once and only in a terminal state; the end of
\* a truncated attempt while retry budget remains never closes it.
C16_ClosesOnceEventually ==
  /\ <>(closed = 1)
  /\ [](closed <= 1)
  /\ [](closed = 1 <=> pc = "done")
  /\ [](closed = 1 => StTerminal)
  /\ [][ (Len(hist') > Len(hist) /\ hist'[Len(hist')].end = "trunc"
           /\ attempts <= maxRetries) => closed' = 0 ]_vars

C16_Witness ==
  /\ closed = 1 /\ StTerminal
  /\ Len(hist) >= 2
  /\ hist[1].end = "trunc" /\ hist[Len(hist)].end = "complete"

----------------------------------------------------------------------------
(* Keepalive *)

\* out[j] was written by the timer callback
IsHeartbeat(j) == out[j].k = "heartbeat"

\* C17: writes of the read loop and of the keepalive timer never interleave
\* bytes: every keepalive event is written at an event boundary, in every
\* phase including passthrough mode, where raw chunks are forwarded.
C17_KeepaliveAtEventBoundary ==
  \A j \in 1..Len(out) :
    (IsHeartbeat(j) /\ j > 1 /\ out[j - 1].k = "byte") =>
      /\ j > 2
      /\ out[j - 1].raw = << SymNL >>
      /\ out[j - 2].raw = << SymNL >>

\* C18: a run of the timer callback writes a zero-length text event exactly
\* when the outbound channel has spare capacity and is neither closed nor
\* errored; the event is marked as thought exactly when isThoughtFinished is
\* false and the request is not from Cherry Studio.
C18_KeepaliveGuardAndShape ==
  [][ ticks' # ticks =>
        IF desiredSize > 0 /\ closed = 0 /\ ~errored
        THEN /\ Len(out') = Len(out) + 1
             /\ SubSeq(out', 1, Len(out)) = out
             /\ LET e == out'[Len(out')]
                IN /\ e.k = "heartbeat"
                   /\ Len(e.parts) = 1
                   /\ e.parts[1].hasText /\ e.parts[1].text = << >>
                   /\ e.parts[1].thought <=> (~isThoughtFinished /\ ~req.cherry)
        ELSE out' = out ]_vars

C18_Witness ==
  /\ ticks = 2 /\ Len(out) >= 3
  /\ req.cherry
  /\ \E j \in 1..Len(out) : IsHeartbeat(j) /\ ~out[j].parts[1].thought /\ ~isThoughtFinished

\* C19: after the outbound channel was closed, by normal completion or by
\* error, the keepalive timer is cancelled and no keepalive event is written
\* to the channel, for every interleaving of timer runs with the read loop.
C19_NoKeepaliveAfterClose ==
  /\ [](closed >= 1 => ~heartbeatInterval)
  /\ [][closed >= 1 => (out' = out /\ ticks' = ticks)]_vars

C19_Witness ==
  /\ closed = 1 /\ ~heartbeatInterval
  /\ ticks >= 1
  /\ Len(out) >= 3 /\ IsHeartbeat(Len(out) - 1)
  /\ out[Len(out)].k \in {"data", "error"}

----------------------------------------------------------------------------
(* thinkingBudget *)

\* the request asks for a thinkingBudget of exactly 0
BudgetZero == req.body.hasBudget /\ req.body.thinkingBudget = 0

\* the body of the first upstream call
FirstBody == IF calls = << >> THEN body ELSE calls[1]

\* the begin-marker instruction is in the system instruction
HasBeginPrompt(b) ==
  /\ b.systemInstruction.present
  /\ \E i \in 1..Len(b.systemInstruction.parts) :
       Contains(b.systemInstruction.parts[i].text, BEGIN_TOKEN_PROMPT)

\* every model turn of the request has, in the body b, the begin marker and
\* a line break put before its text / has its text left as it starts
ModelTurnsPrefixed(b) ==
  \A i \in 1..Len(req.body.contents) :
    req.body.contents[i].role = "model" =>
      StartsWith(b.contents[i].parts[1].text,
                 BEGIN_TOKEN \o << "\n" >> \o req.body.contents[i].parts[1].text)

ModelTurnsNotPrefixed(b) ==
  \A i \in 1..Len(req.body.contents) :
    req.body.contents[i].role = "model" =>
      /\ StartsWith(b.contents[i].parts[1].text, req.body.contents[i].parts[1].text)
      /\ ~Contains(b.contents[i].parts[1].text, BEGIN_TOKEN)

\* the body b ends with the seed model turn holding startOfThought
HasSeedTurn(b) ==
  /\ Len(b.contents) = Len(req.body.contents) + 1
  /\ b.contents[Len(b.contents)] = Content("model", << TextPart(startOfThought) >>)

LastTurnIsUser == req.body.contents[Len(req.body.contents)].role = "user"

\* no upstream answer was processed yet
NothingProcessed == hist = << >> /\ rx = << >>

\* this step ends the first attempt with an answer, read to its end in the
\* streaming handler
FirstAnswered ==
  /\ hist = << >> /\ Len(hist') = 1
  /\ IF handler = "ns" THEN hist'[1].kind = "ok" ELSE hist'[1].end \in {"complete", "trunc"}

\* the text of that answer, and whether the handler took it as complete
FirstAnswerText ==
  IF handler = "ns" THEN parseParts(hist'[1].parts).responseText ELSE FullText(stream)

FirstTakenComplete ==
  IF handler = "ns" THEN pc' = "done" /\ resp'.kind = "complete"
  ELSE hist'[1].end = "complete"

\* what the request's thinkingBudget does to the first upstream call and to
\* the initial thought phase
BudgetPrepared ==
  /\ BudgetZero =>
       /\ ~injectBegin
       /\ ~HasBeginPrompt(FirstBody)
       /\ ModelTurnsNotPrefixed(FirstBody)
       /\ Len(FirstBody.contents) = Len(req.body.contents)
       /\ NothingProcessed => isThoughtFinished
  /\ ~BudgetZero =>
       /\ injectBegin
       /\ HasBeginPrompt(FirstBody)
       /\ ModelTurnsPrefixed(FirstBody)
       /\ LastTurnIsUser => HasSeedTurn(FirstBody)
       /\ NothingProcessed => ~isThoughtFinished

\* what it does to the decision on the first answer
BudgetDecides ==
  FirstAnswered =>
    IF BudgetZero
    THEN FirstTakenComplete <=> isResponseComplete(FirstAnswerText)
    ELSE ~Contains(FirstAnswerText, BEGIN_TOKEN) => ~FirstTakenComplete

\* C20: a request whose thinkingBudget is exactly 0 gets no begin-marker
\* injection (no begin-marker instruction, no prefix on model turns, no seed
\* model turn) and starts with the thought phase ended, so that completion
\* depends on the finish marker only; a request with any other or no
\* thinkingBudget gets the injection and starts with the thought phase
\* active, so that an answer without the begin marker is not complete.
C20_BudgetZeroSuppressesBegin == []BudgetPrepared /\ [][BudgetDecides]_vars

\* a budget-0 request with an earlier model turn had a first answer that
\* ends with the finish marker and has no begin marker, taken as complete
C20_Witness ==
  /\ BudgetZero
  /\ Len(req.body.contents) = 3
  /\ Len(hist) = 1
  /\ pc = "done"
  /\ IF handler = "ns"
     THEN resp.kind = "complete" /\ ~Contains(hist[1].parts[1].text, BEGIN_TOKEN)
     ELSE hist[1].end = "complete" /\ ~Contains(FullText(stream), BEGIN_TOKEN)

\* min(max(b, 128), 32768)
IntoRange(b) ==
  LET lo == IF b > 128 THEN b ELSE 128
  IN IF lo < 32768 THEN lo ELSE 32768

\* C21: in both handlers every upstream call carries the request's
\* thinkingBudget clamped into [128, 32768]: min(max(b, 128), 32768) for a
\* present b other than 0, b itself when it is inside the range, 0 for 0,
\* and no thinkingBudget when the request has none.
C21_BudgetClamped ==
  \A i \in 1..Len(calls) :
    /\ calls[i].hasBudget = req.body.hasBudget
    /\ req.body.hasBudget =>
         LET b == req.body.thinkingBudget
             sent == calls[i].thinkingBudget
         IN /\ b = 0 => sent = 0
            /\ b # 0 => sent = IntoRange(b)
            /\ (b >= 128 /\ b <= 32768) => sent = b

\* a retry call of a request with a budget above the range carries 32768
C21_Witness ==
  /\ Len(calls) = 2
  /\ req.body.hasBudget /\ req.body.thinkingBudget = 40000
  /\ calls[2].thinkingBudget = 32768

\* C22: a request whose path names no target model, or whose generationConfig
\* asks for a response schema, is passed through: one upstream call with the
\* body of the request as it came (no marker injection, no thinkingBudget
\* clamping), no retry whatever the upstream answers, and the upstream
\* response returned as it is.
C22_PassthroughUnmodified ==
  (~req.target \/ req.body.responseSchema) =>
    /\ Len(calls) <= 1
    /\ \A i \in 1..Len(calls) : calls[i] = req.body
    /\ out = << >> /\ closed = 0
    /\ pc = "done" =>
         /\ Len(calls) = 1
         /\ lastUp.kind # "neterr" =>
              /\ resp.kind = "upstream"
              /\ resp.status = lastUp.code
              /\ resp.parts = lastUp.parts
              /\ resp.meta = lastUp.meta

\* a target-model request with a response schema and a budget below the
\* range was answered 503: one call, budget as sent by the caller, the 503
\* returned
C22_Witness ==
  /\ req.target /\ req.body.responseSchema
  /\ req.body.hasBudget /\ req.body.thinkingBudget = 64
  /\ pc = "done"
  /\ Len(calls) = 1 /\ calls[1].thinkingBudget = 64
  /\ resp.status = 503

----------------------------------------------------------------------------
(* The functions of core.js *)

\* C23: hasAnswerStarted(text) is true for the begin marker followed by a
\* space and further text and for the bare begin marker, false for the begin
\* marker followed at once by a period, and false for every text that does
\* not start with the begin marker.
C23_AnswerStarted ==
  fn = "isFormalResponseStarted" =>
    /\ arg.text = BEGIN_TOKEN \o Txt_Hello => returned.bool
    /\ arg.text = BEGIN_TOKEN => returned.bool
    /\ arg.text = BEGIN_TOKEN \o << ".", " " >> \o Txt_ok => ~returned.bool
    /\ ~StartsWith(arg.text, BEGIN_TOKEN) => ~returned.bool

\* the finish marker occurs in text at position i
FinishAt(text, i) ==
  i >= 1 /\ i + TOKEN_LEN - 1 <= Len(text) /\ SubSeq(text, i, i + TOKEN_LEN - 1) = FINISHED_TOKEN

\* the last finish marker of text is followed by a character that is not
\* whitespace
LastFinishFollowed(text) ==
  \E i \in 1..Len(text) :
    /\ FinishAt(text, i)
    /\ \A k \in (i + 1)..Len(text) : ~FinishAt(text, k)
    /\ \E j \in (i + TOKEN_LEN)..Len(text) : ~IsWS(text[j])

\* C24: isComplete(text) is true exactly when the text without its trailing
\* whitespace ends with the finish marker, and it is false whenever the last
\* finish marker is followed by a character that is not whitespace.
C24_CompleteIffTrimmedEndsWithMarker ==
  fn = "isResponseComplete" =>
    /\ returned.bool <=> EndsWith(TrimEnd(arg.text), FINISHED_TOKEN)
    /\ LastFinishFollowed(arg.text) => ~returned.bool

\* a text whose finish marker is followed by four kinds of whitespace was
\* found complete
C24_Witness ==
  /\ fn = "isResponseComplete"
  /\ arg.text = Txt_Hi \o FINISHED_TOKEN \o << " ", "\n", "\t", "\r" >>
  /\ returned.bool

\* C25: for every non-empty text t of a model turn, with or without
\* whitespace at its ends, stripMarkers of the text that injectMarkers makes
\* of t (begin marker and line break before it, line break and finish marker
\* after it) is t.
C25_StripAfterInjectRoundTrip ==
  (fn = "cleanFinalText" /\ arg.text # << >>) => returned.text = arg.text

\* a text with a line break before and a tab and a line break after it went
\* through both functions
C25_Witness ==
  /\ fn = "cleanFinalText"
  /\ arg.text = << "\n" >> \o Txt_Hi \o << "\t", "\n" >>
  /\ InjectedText(arg.text) =
       BEGIN_TOKEN \o << "\n" >> \o arg.text \o << "\n" >> \o FINISHED_TOKEN
  /\ returned.text = arg.text

\* the content entries of a body, none when contents is missing
ContentsOf(b) == IF b.hasContents THEN b.contents ELSE << >>

\* the last part of content entry c that has a text property, 0 if none
LastTextPart(c) ==
  IF \E i \in 1..Len(c.parts) : c.parts[i].hasText
  THEN CHOOSE i \in 1..Len(c.parts) :
         c.parts[i].hasText /\ \A j \in (i + 1)..Len(c.parts) : ~c.parts[j].hasText
  ELSE 0

\* C26: buildContinuation(request, newText) on a request whose last content
\* entry has the user role, or whose contents are empty or missing, appends
\* one model entry whose only part holds newText; on a request whose last
\* entry has the model role and parts with text it appends newText to the
\* last part with text and makes no new part or entry; all earlier entries
\* are unchanged.
C26_ContinuationShape ==
  fn = "buildRetryRequest" =>
    LET cs == ContentsOf(arg.body)
        n  == Len(cs)
        rs == returned.body.contents
    IN /\ returned.body.hasContents
       /\ (n = 0 \/ cs[n].role = "user") =>
            rs = Append(cs, Content("model", << TextPart(arg.text) >>))
       /\ (n > 0 /\ cs[n].role = "model" /\ cs[n].isArr /\ LastTextPart(cs[n]) # 0) =>
            /\ Len(rs) = n
            /\ Len(rs[n].parts) = Len(cs[n].parts)
            /\ \A i \in 1..Len(cs[n].parts) :
                 rs[n].parts[i] =
                   IF i = LastTextPart(cs[n])
                   THEN [cs[n].parts[i] EXCEPT !.text = @ \o arg.text]
                   ELSE cs[n].parts[i]
            /\ \A i \in 1..(n - 1) : rs[i] = cs[i]

\* the last entry was a model turn with a text part followed by a function
\* call: the new text went to the end of the text part
C26_Witness ==
  /\ fn = "buildRetryRequest"
  /\ ContentsOf(arg.body) = << UserTurn, Content("model", << TextPart(Txt_ok), CallPart >>) >>
  /\ returned.body.contents =
       << UserTurn, Content("model", << TextPart(Txt_ok \o Txt_Hi), CallPart >>) >>

FieldThere(sys) == sys.present \/ sys.null

\* C28: normalize is idempotent, and after normalize the request has at most
\* one system-instruction field: when both spellings were there the canonical
\* value is kept and the legacy field removed, when only the legacy spelling
\* was there its value is moved to the canonical field and the legacy field
\* removed.
C28_NormalizeIdempotentOneField ==
  [][ /\ (fn = "normalizeSystemInstruction" /\ fn' = "normalizeSystemInstruction twice") =>
           returned'.body = returned.body
      /\ (fn = "none" /\ fn' = "normalizeSystemInstruction") =>
           LET b == arg.body
               r == returned'.body
           IN /\ ~(FieldThere(r.systemInstruction) /\ FieldThere(r.system_instruction))
              /\ (FieldThere(b.systemInstruction) /\ FieldThere(b.system_instruction)) =>
                   /\ r.systemInstruction = b.systemInstruction
                   /\ ~FieldThere(r.system_instruction)
              /\ (~FieldThere(b.systemInstruction) /\ FieldThere(b.system_instruction)) =>
                   /\ r.systemInstruction = b.system_instruction
                   /\ ~FieldThere(r.system_instruction) ]_vars

----------------------------------------------------------------------------
(* Lookahead *)

\* a chunk was read and processed in this step, outside passthrough mode
ChunkStep ==
  /\ handler = "st" /\ pc = "read" /\ pc' = "read"
  /\ rx' # rx
  /\ ~passthroughMode'

\* the queued events written in this step
ReleasedNow == SelectSeq(SubSeq(out', Len(out) + 1, Len(out')), LAMBDA o : o.k = "data")

\* the text of event i of the stream, as the engine queues it
QueuedText(i) ==
  IF stream[i].kind = "data" THEN parseParts(stream[i].parts).responseText ELSE << >>

\* all text received in the attempt when rx has been read: the text of the
\* events whose closing blank line is in rx
ReceivedText(r) == FullText(SubSeq(stream, 1, Len(r) \div 4))

\* the stream positions of the events released so far in this attempt,
\* followed by those of the events still queued
EmittedThenQueued ==
  [j \in 1..Len(Released) |-> Released[j].src[1][2]]
    \o [j \in 1..Len(linesBuffer) |-> linesBuffer[j].rawLine.id[2]]

\* C29: in the streaming handler, before the end of the upstream stream and
\* apart from the flush that enters passthrough mode, a queued event is
\* written only in a step where the lookahead buffer is longer than the
\* length of the finish marker plus 4; events leave the queue from its front
\* in arrival order; and after every step that released events the lookahead
\* buffer holds at least the last (marker length + 4) characters of the text
\* received in the attempt.
C29_LookaheadRelease ==
  /\ [] ( (handler = "st" /\ pc = "read" /\ ~passthroughMode) =>
            \A j \in 1..(Len(EmittedThenQueued) - 1) :
              EmittedThenQueued[j] < EmittedThenQueued[j + 1] )
  /\ [][ (ChunkStep /\ ReleasedNow # << >>) =>
           /\ Len(textBuffer')
                + SumLen([j \in 1..Len(ReleasedNow) |-> QueuedText(ReleasedNow[j].src[1][2])])
                > Len(FINISHED_TOKEN) + 4
           /\ Len(textBuffer') >= Len(FINISHED_TOKEN) + 4
           /\ EndsWith(ReceivedText(rx'), textBuffer') ]_vars

\* two events were released, one is still queued, and the lookahead buffer
\* holds more than the marker length plus 4
C29_Witness ==
  /\ handler = "st" /\ pc = "read" /\ ~passthroughMode
  /\ Len(Released) >= 2
  /\ linesBuffer # << >>
  /\ Len(textBuffer) > Len(FINISHED_TOKEN) + 4
  /\ EndsWith(ReceivedText(rx), textBuffer)

----------------------------------------------------------------------------
(* The thought phase and the accumulators *)

\* C30: within one logical response the thought-finished flag only goes from
\* false to true, never back, across retry attempts too; in the
\* non-streaming handler the accumulated thought text and the accumulated
\* formal text only grow by appending.
C30_FlagAndAccumulatorsMonotone ==
  [][ /\ isThoughtFinished => isThoughtFinished'
      /\ handler = "ns" =>
           /\ StartsWith(thoughtAcc', thoughtAcc)
           /\ StartsWith(formalAcc', formalAcc) ]_vars

\* the non-streaming handler after three answers: the thought phase ended
\* in an earlier attempt, thought text was added to the seed phrase, and the
\* formal text holds the texts of two attempts
C30_Witness ==
  /\ handler = "ns" /\ injectBegin
  /\ Len(hist) = 3
  /\ isThoughtFinished
  /\ thoughtAcc = startOfThought \o Txt_ok
  /\ formalAcc = BEGIN_TOKEN \o Txt_Hi \o Txt_ok

----------------------------------------------------------------------------
(* Events that are not parsed *)

\* the events of the stream whose closing blank line is read in this step
NewlyFramed == { i \in 1..Len(stream) : Len(rx) < 4 * i /\ 4 * i <= Len(rx') }

\* what is written to the outbound stream in this step
WrittenNow == SubSeq(out', Len(out) + 1, Len(out'))

\* the line of event i is written in this step as upstream sent it
ForwardedNow(i) ==
  \E j \in 1..Len(WrittenNow) :
    /\ WrittenNow[j].k = "line"
    /\ WrittenNow[j].raw = << SymH(i), SymT(i) >>
    /\ WrittenNow[j].verbatim

\* nothing written so far holds the line of event i of the current attempt
NeverWritten(i) ==
  \A j \in 1..Len(out) :
    ~(out[j].k = "line" /\ out[j].raw # << >> /\ out[j].raw[1] = SymH(i))

\* some event framed so far in this attempt is of one of the kinds ks
FramedOfKind(ks) == \E i \in 1..(Len(rx) \div 4) : stream[i].kind \in ks

\* the positions of the parsed events framed so far, in order
FramedParsed ==
  SelectSeq([i \in 1..(Len(rx) \div 4) |-> i], LAMBDA i : stream[i].kind = "data")

\* after an event of one of the kinds ks the engine goes on: every parsed
\* event framed so far has been released or is queued, in arrival order, and
\* the end of the stream is decided on the text received
GoesOnAfter(ks) ==
  (handler = "st" /\ ~passthroughMode /\ FramedOfKind(ks)) =>
    /\ pc = "read" => EmittedThenQueued = FramedParsed
    /\ (pc = "done" /\ LastEnd \in {"complete", "trunc", "pass"}) =>
         (LastEnd = "complete"
            <=> (isThoughtFinished /\ TrimEnd(ReceivedText(rx)) # << >>
                 /\ EndsWith(TrimEnd(ReceivedText(rx)), FINISHED_TOKEN)))
    /\ pc = "done" => LastEnd \in {"complete", "trunc"}

\* C31 as stated: in the streaming handler outside passthrough mode, every
\* non-data event and every data event whose payload is not valid JSON (an
\* empty payload included) is written to the caller unmodified in the step
\* that frames it, and the events after it are still processed: the attempt
\* completes or is retried.
C31_UnparsedForwardedAtOnce ==
  /\ [] GoesOnAfter({"other", "bad", "nopayload"})
  /\ [][ ChunkStep =>
           \A i \in NewlyFramed :
             stream[i].kind \in {"other", "bad", "nopayload"} => ForwardedNow(i) ]_vars

\* C31 amended: a non-data event, and a data event whose payload is not
\* empty and not valid JSON, is written to the caller unmodified in the step
\* that frames it; a data event whose payload is empty is written never; in
\* both cases the events after it are still processed and the attempt
\* completes or is retried.
C31_UnparsedForwardedOrSkipped ==
  /\ [] GoesOnAfter({"other", "bad", "nopayload"})
  /\ [] ( handler = "st" =>
            \A i \in 1..Len(stream) : stream[i].kind = "nopayload" => NeverWritten(i) )
  /\ [][ ChunkStep =>
           \A i \in NewlyFramed :
             stream[i].kind \in {"other", "bad"} => ForwardedNow(i) ]_vars

\* a complete attempt whose stream had a non-data line, a data line without
\* payload and a malformed payload: the two lines were written before the
\* final event, which holds the text of an event that came before the
\* malformed one
C31_Witness ==
  /\ handler = "st" /\ pc = "done" /\ LastEnd = "complete"
  /\ Len(stream) = 5 /\ stream[3].kind = "nopayload" /\ stream[4].kind = "bad"
  /\ Len(rx) = 20
  /\ \E a, b, c \in 1..Len(out) :
       /\ a < b /\ b < c
       /\ out[a].k = "line" /\ out[a].raw = << SymH(1), SymT(1) >>
       /\ out[b].k = "line" /\ out[b].raw = << SymH(4), SymT(4) >>
       /\ out[c].fin = "STOP" /\ out[c].parts = << TextPart(Txt_Hi) >>

----------------------------------------------------------------------------
(* The end of a complete stream *)

\* the position in the queue of the event that ended the thought phase, 0
\* if it is not queued
QueuedTransition ==
  IF \E j \in 1..Len(linesBuffer) : linesBuffer[j].isTransitionLine
  THEN CHOOSE j \in 1..Len(linesBuffer) : linesBuffer[j].isTransitionLine
  ELSE 0

\* the text of the queued events that arrived in the thought phase of this
\* attempt, and the text of those that arrived after it
RemainingThought ==
  IF itf0 THEN << >>
  ELSE Concat([j \in 1..Len(linesBuffer) |->
                 IF QueuedTransition # 0 /\ j < QueuedTransition
                 THEN linesBuffer[j].text ELSE << >>])
RemainingFormal ==
  Concat([j \in 1..Len(linesBuffer) |->
            IF itf0 \/ QueuedTransition = 0 \/ j >= QueuedTransition
            THEN linesBuffer[j].text ELSE << >>])

\* the upstream stream ends in this step, outside passthrough mode, with
\* the thought phase ended and a lookahead buffer that ends, apart from
\* trailing whitespace, with the finish marker
CompleteEndStep ==
  /\ handler = "st" /\ pc = "read" /\ pc' # "read"
  /\ ~passthroughMode /\ isThoughtFinished
  /\ EndsWith(TrimEnd(textBuffer), FINISHED_TOKEN)

\* C32: when an upstream stream ends outside passthrough mode with the
\* thought phase ended and the lookahead buffer complete, the engine writes
\* exactly one event, built from the queued events: a thought part with the
\* remaining thought text if there is any, then a part with the remaining
\* formal text without markers if there is any, finishReason STOP; it
\* closes the outbound stream and makes no further upstream call.
C32_FinalEventAtCompleteEnd ==
  /\ [][ CompleteEndStep =>
           /\ Len(WrittenNow) = 1
           /\ WrittenNow[1].k = "data" /\ WrittenNow[1].fin = "STOP"
           /\ WrittenNow[1].parts =
                (IF RemainingThought # << >>
                 THEN << [hasText |-> TRUE, text |-> RemainingThought,
                          thought |-> TRUE, fc |-> FALSE] >>
                 ELSE << >>)
                \o (IF cleanFinalText(RemainingFormal, TRUE, TRUE) # << >>
                    THEN << [hasText |-> TRUE,
                             text |-> cleanFinalText(RemainingFormal, TRUE, TRUE),
                             thought |-> FALSE, fc |-> FALSE] >>
                    ELSE << >>)
           /\ closed = 0 /\ closed' = 1
           /\ pc' = "done"
           /\ calls' = calls ]_vars
  /\ [][ (handler = "st" /\ pc = "done") => (calls' = calls /\ pc' = "done") ]_vars

\* a stream ended complete with the event that ended the thought phase and
\* the one with the finish marker still queued: one final event with the
\* answer text and no marker was written, and the outbound stream is closed
C32_Witness ==
  /\ handler = "st" /\ pc = "done" /\ LastEnd = "complete" /\ closed = 1
  /\ injectBegin /\ attempts = 1
  /\ Len(linesBuffer) = 2 /\ linesBuffer[1].isTransitionLine
  /\ Len(SelectSeq(out, LAMBDA o : o.k = "data" /\ o.src # << >>)) = 1
  /\ out[Len(out)].fin = "STOP"
  /\ out[Len(out)].parts = << TextPart(Txt_Hi) >>
  /\ Len(calls) = 1

----------------------------------------------------------------------------
(* The text sent back to the model *)

\* the text the non-streaming handler received in attempt i: the text parts
\* of the answer that are not marked as thought
NSReceived(i) ==
  IF hist[i].kind = "ok"
  THEN Concat([j \in 1..Len(hist[i].parts) |->
                 IF Truthy(hist[i].parts[j]) /\ ~hist[i].parts[j].thought
                 THEN hist[i].parts[j].text ELSE << >>])
  ELSE << >>

\* C33: in the non-streaming handler the request of attempt k+1, once an
\* earlier attempt was answered and found truncated, has as the text of its
\* last model-role content the seed phrase (when the begin prompt is
\* injected) followed by the texts received in attempts 1..k in order, each
\* exactly once.
C33_ContinuationTextOnce ==
  handler = "ns" =>
    \A k \in 1..(Len(calls) - 1) :
      (\E i \in 1..k : hist[i].kind = "ok") =>
        /\ calls[k + 1].contents[Len(calls[k + 1].contents)].role = "model"
        /\ LastModelText(calls[k + 1])
             = (IF injectBegin THEN startOfThought ELSE << >>)
                 \o Concat([i \in 1..k |-> NSReceived(i)])


\* the texts of the events of the current attempt that were written to the
\* outbound stream outside passthrough mode, in order
ForwardedTexts ==
  LET ps == Concat([j \in 1..Len(AttemptItems(attempts)) |-> AttemptItems(attempts)[j].parts])
  IN SelectSeq([j \in 1..Len(ps) |-> IF Truthy(ps[j]) THEN ps[j].text ELSE << >>],
               LAMBDA t : t # << >>)

\* the request body b ends with a model turn whose text holds every text of ts
HoldsTexts(b, ts) ==
  /\ b.contents[Len(b.contents)].role = "model"
  /\ \A j \in 1..Len(ts) : Contains(LastModelText(b), ts[j])

\* C34: in the streaming handler, whenever an attempt ends and another one
\* follows, whether the upstream stream ended or a read failed in the middle
\* of it, every text forwarded to the caller during the ended attempt is
\* held by the continuation request of the next attempt.
C34_ForwardedTextInContinuation ==
  [][ (handler = "st" /\ attempts' = attempts + 1 /\ ForwardedTexts # << >>)
        => HoldsTexts(body', ForwardedTexts) ]_vars


\* the position in the stream of the event that ends the thought phase of
\* an attempt that began in the thought phase, 0 if there is none
TransitionAt(evs) ==
  IF \E i \in 1..Len(evs) : evs[i].kind = "data"
                            /\ isFormalResponseStarted(parseParts(evs[i].parts).responseText)
  THEN CHOOSE i \in 1..Len(evs) :
         /\ evs[i].kind = "data"
         /\ isFormalResponseStarted(parseParts(evs[i].parts).responseText)
         /\ \A h \in 1..(i - 1) :
              ~(evs[h].kind = "data"
                /\ isFormalResponseStarted(parseParts(evs[h].parts).responseText))
  ELSE 0

\* the text of the released events of the attempt in arrival order, with
\* the begin marker (and the line feed the engine records with it) in the
\* place of the begin marker of the event that ended the thought phase
ReceivedOrder ==
  Concat([j \in 1..Len(Released) |->
            LET i == Released[j].src[1][2]
            IN IF i = TransitionAt(stream)
               THEN BEGIN_TOKEN \o << "\n" >> \o cleanFinalText(QueuedText(i), TRUE, FALSE)
               ELSE QueuedText(i)])

\* a stream ends truncated in this step, in an attempt that began in the
\* thought phase and released the event that ended it
TruncatedAfterTransition ==
  /\ handler = "st" /\ pc = "read" /\ pc' # "read"
  /\ Len(hist') = Len(hist) + 1 /\ hist'[Len(hist')].end = "trunc"
  /\ ~itf0 /\ isThoughtFinished
  /\ \E j \in 1..Len(Released) : Released[j].src[1][2] = TransitionAt(stream)

\* C35: the text appended to the continuation request for an attempt lists
\* the text of the attempt in the order it was received: the begin marker
\* recorded at the end of the thought phase comes after all thought text of
\* the attempt and before all of its formal text.
C35_ContinuationInReceivedOrder ==
  [][ TruncatedAfterTransition =>
        ContinuationOf(body, body',
                       (IF injectBegin /\ attempts = 1 THEN startOfThought ELSE << >>)
                         \o ReceivedOrder) ]_vars

----------------------------------------------------------------------------
(* Thought marks on the outbound stream *)

\* out[j] is an event with a part that carries the thought mark
ThoughtMarked(j) ==
  /\ out[j].k \in {"data", "heartbeat"}
  /\ \E p \in 1..Len(out[j].parts) : out[j].parts[p].thought

\* out[j] is an event with text (answer text, or the empty text of a
\* keepalive) and without the thought mark
Unmarked(j) ==
  /\ out[j].k \in {"data", "heartbeat"}
  /\ \E p \in 1..Len(out[j].parts) : out[j].parts[p].hasText
  /\ \A p \in 1..Len(out[j].parts) : ~out[j].parts[p].thought

\* C36: for a streaming request that is not from Cherry Studio, in every
\* interleaving of the keepalive timer with the read loop, once an event
\* without the thought mark has been written to the outbound stream no event
\* with a thought-marked part is written after it.
C36_NoThoughtAfterUnmarked ==
  (handler = "st" /\ ~req.cherry) =>
    \A j, k \in 1..Len(out) : (j < k /\ Unmarked(j)) => ~ThoughtMarked(k)

----------------------------------------------------------------------------
(* The last event of a stream *)

\* the state of the attempt after the event held in the partial-line
\* buffer has been framed and processed as the events before it were
LastEventProcessed ==
  ProcChunk([lineBuffer |-> lineBuffer, textBuffer |-> textBuffer,
             linesBuffer |-> linesBuffer, itf |-> isThoughtFinished,
             acc |-> acc, hasFC |-> hasFC, pass |-> passthroughMode, out |-> out],
            stream, << SymNL, SymNL >>, attempts)

\* C37: when an upstream stream ends, an event still held in the partial-
\* line buffer (a last event not followed by a blank line) is processed
\* like any other event before the attempt is found complete or truncated:
\* the decision is the one taken on the buffers with that event processed,
\* so it is the same with and without a blank line after the last event.
C37_LastEventProcessedAtEnd ==
  [][ ( /\ handler = "st" /\ pc = "read" /\ pc' # "read"
        /\ ~passthroughMode
        /\ Len(hist') = Len(hist) + 1
        /\ hist'[Len(hist')].end \in {"complete", "trunc"} )
      => (hist'[Len(hist')].end = "complete"
            <=> ( /\ ~LastEventProcessed.pass
                  /\ LastEventProcessed.itf
                  /\ EndsWith(TrimEnd(LastEventProcessed.textBuffer), FINISHED_TOKEN) )) ]_vars

====
